---- MODULE Spec2Model ----
(***************************************************************************)
(* Model of services/agent.py: the transport helper call_inventory_api and *)
(* the 17 tool operations of InventoryAgent.  One invocation is: build the *)
(* request from the arguments, issue it, receive the outcome of the HTTP   *)
(* exchange, and reduce it to a returned string or a raised exception.     *)
(*                                                                         *)
(* Python / JSON values are tagged records:                                *)
(*   None/null  [t |-> "null"]                                             *)
(*   bool       [t |-> "bool",  b |-> TRUE]                                *)
(*   int        [t |-> "int",   i |-> 7]                                   *)
(*   float      [t |-> "float", m |-> 45500]     (thousandths: 45.5)       *)
(*   str        [t |-> "str",   s |-> "abc"]                               *)
(*   str        [t |-> "text",  toks |-> <<..>>] (a str given by its JSON  *)
(*                                                tokens, for json.loads)  *)
(*   list       [t |-> "list",  l |-> <<..>>]                              *)
(*   dict       [t |-> "obj",   o |-> [key |-> value]]                     *)
(***************************************************************************)
EXTENDS Integers, Sequences, FiniteSets, TLC

\* ------------------------------------------------------------------ bounds
MaxTextLen == 2      \* cost_breakdown texts: every token string up to this length
MaxEntries == 2      \* ... and every well-formed list of up to this many entries
MaxItems == 1        \* length of the lists of arbitrary items a response carries

\* ------------------------------------------------------------ value makers
PyNone == [t |-> "null"]
PyBool(b) == [t |-> "bool", b |-> b]
PyInt(n) == [t |-> "int", i |-> n]
PyFloat(m) == [t |-> "float", m |-> m]
PyStr(s) == [t |-> "str", s |-> s]
PyText(toks) == [t |-> "text", toks |-> toks]
PyList(l) == [t |-> "list", l |-> l]
PyDict(o) == [t |-> "obj", o |-> o]
EmptyObj == [k \in {} |-> PyNone]

\* A Python evaluation: a value, or the exception type it raised.
Ok(v) == [exc |-> "", v |-> v]
Raise(e) == [exc |-> e, v |-> PyNone]

\* ------------------------------------------------------- string utilities
RECURSIVE Join(_, _)
Join(parts, sep) ==
    IF parts = <<>> THEN ""
    ELSE IF Len(parts) = 1 THEN parts[1]
    ELSE parts[1] \o sep \o Join(Tail(parts), sep)

RECURSIVE Flatten(_)
Flatten(seqs) ==
    IF seqs = <<>> THEN <<>> ELSE Head(seqs) \o Flatten(Tail(seqs))

Digits2(n) == IF n < 10 THEN "0" \o ToString(n) ELSE ToString(n)

\* repr() of a non-negative float given in thousandths: shortest decimal
\* form with at least one fractional digit (45.0, 45.5, 45.25, 0.125).
FloatRepr(m) ==
    LET whole == m \div 1000
        frac == m % 1000
    IN  ToString(whole) \o "." \o
        (IF frac % 100 = 0 THEN ToString(frac \div 100)
         ELSE IF frac % 10 = 0 THEN Digits2(frac \div 10)
         ELSE IF frac < 10 THEN "00" \o ToString(frac)
         ELSE IF frac < 100 THEN "0" \o ToString(frac)
         ELSE ToString(frac))

\* format(x, ".2f") of a non-negative number given in thousandths.
Fixed2(m) ==
    LET cents == (m + 5) \div 10
    IN  ToString(cents \div 100) \o "." \o Digits2(cents % 100)

\* format(x, ".1f") of a non-negative number given in thousandths.
Fixed1(m) ==
    LET tenths == (m + 50) \div 100
    IN  ToString(tenths \div 10) \o "." \o ToString(tenths % 10)

\* ---------------------------------------------------- Python primitives
\* bool(v): the truth value the `if v:` tests and `not v` use.
Truthy(v) ==
    CASE v.t = "null" -> FALSE
      [] v.t = "bool" -> v.b
      [] v.t = "int" -> v.i # 0
      [] v.t = "float" -> v.m # 0
      [] v.t = "str" -> v.s # ""
      [] v.t = "text" -> v.toks # <<>>
      [] v.t = "list" -> v.l # <<>>
      [] v.t = "obj" -> DOMAIN v.o # {}

ObjKeyOrder == <<"success", "error", "message", "data", "name", "sku", "type",
                 "quantity", "price", "cost", "costBreakdown", "category",
                 "amount", "totalSaleValue", "profit", "productId", "month",
                 "totalProducts", "totalValue", "lowStockCount", "totalRevenue",
                 "totalProfit", "totalCost", "salesCount", "profitMargin",
                 "averageProfit", "totalSales", "averagePerDay", "trend">>

\* str(v) as an f-string replacement field {v} renders it.
RECURSIVE Str(_)
Str(v) ==
    CASE v.t = "null" -> "None"
      [] v.t = "bool" -> IF v.b THEN "True" ELSE "False"
      [] v.t = "int" -> ToString(v.i)
      [] v.t = "float" -> FloatRepr(v.m)
      [] v.t = "str" -> v.s
      [] v.t = "text" -> Join(v.toks, "")
      [] v.t = "list" ->
            "[" \o Join([i \in 1..Len(v.l) |-> Str(v.l[i])], ", ") \o "]"
      [] v.t = "obj" ->
            LET keys == SelectSeq(ObjKeyOrder, LAMBDA k : k \in DOMAIN v.o)
            IN  "{" \o Join([i \in 1..Len(keys) |->
                              "'" \o keys[i] \o "': " \o Str(v.o[keys[i]])], ", ")
                \o "}"

\* d.get(key, default): AttributeError unless d is a dict.
dict_get(d, key, default) ==
    IF d.t # "obj" THEN Raise("AttributeError")
    ELSE Ok(IF key \in DOMAIN d.o THEN d.o[key] ELSE default)

\* f"{v:.2f}": numbers format, a str rejects the code 'f', the rest have no
\* __format__ for it.
format_2f(v) ==
    CASE v.t = "int" -> Ok(PyStr(Fixed2(v.i * 1000)))
      [] v.t = "float" -> Ok(PyStr(Fixed2(v.m)))
      [] v.t = "bool" -> Ok(PyStr(IF v.b THEN "1.00" ELSE "0.00"))
      [] v.t \in {"str", "text"} -> Raise("ValueError")
      [] OTHER -> Raise("TypeError")

format_1f(v) ==
    CASE v.t = "int" -> Ok(PyStr(Fixed1(v.i * 1000)))
      [] v.t = "float" -> Ok(PyStr(Fixed1(v.m)))
      [] v.t = "bool" -> Ok(PyStr(IF v.b THEN "1.0" ELSE "0.0"))
      [] v.t \in {"str", "text"} -> Raise("ValueError")
      [] OTHER -> Raise("TypeError")

\* len(v)
py_len(v) ==
    CASE v.t = "list" -> Ok(PyInt(Len(v.l)))
      [] v.t = "obj" -> Ok(PyInt(Cardinality(DOMAIN v.o)))
      [] v.t = "str" -> Ok(PyInt(Len(v.s)))
      [] v.t = "text" -> Ok(PyInt(Len(v.toks)))
      [] OTHER -> Raise("TypeError")

\* ------------------------------------------------------------ json.loads
EntryMaterial == "{\"category\":\"Material\",\"amount\":20}"
EntryEmbroidery == "{\"category\":\"Embroidery\",\"amount\":10}"
Tokens == {"[", "]", ",", "null", EntryMaterial, EntryEmbroidery}

\* The object a {category, amount} token denotes.
EntryValue(tok) ==
    IF tok = EntryMaterial
    THEN PyDict(("category" :> PyStr("Material")) @@ ("amount" :> PyInt(20)))
    ELSE PyDict(("category" :> PyStr("Embroidery")) @@ ("amount" :> PyInt(10)))

ParseFail == [ok |-> FALSE, val |-> PyNone, next |-> 0]

RECURSIVE ParseValue(_, _), ParseItems(_, _, _)
ParseValue(toks, i) ==
    IF i > Len(toks) THEN ParseFail
    ELSE IF toks[i] = "null" THEN [ok |-> TRUE, val |-> PyNone, next |-> i + 1]
    ELSE IF toks[i] \in {EntryMaterial, EntryEmbroidery}
         THEN [ok |-> TRUE, val |-> EntryValue(toks[i]), next |-> i + 1]
    ELSE IF toks[i] = "["
         THEN IF i + 1 <= Len(toks) /\ toks[i + 1] = "]"
              THEN [ok |-> TRUE, val |-> PyList(<<>>), next |-> i + 2]
              ELSE ParseItems(toks, i + 1, <<>>)
    ELSE ParseFail

ParseItems(toks, i, acc) ==
    LET v == ParseValue(toks, i)
    IN  IF ~v.ok \/ v.next > Len(toks) THEN ParseFail
        ELSE IF toks[v.next] = "]"
             THEN [ok |-> TRUE, val |-> PyList(Append(acc, v.val)), next |-> v.next + 1]
        ELSE IF toks[v.next] = ","
             THEN ParseItems(toks, v.next + 1, Append(acc, v.val))
        ELSE ParseFail

Reverse(seq) == [i \in 1..Len(seq) |-> seq[Len(seq) + 1 - i]]

\* Variant: a decoded list comes out in reverse order.
json_loads_reversed(text) ==
    LET r == ParseValue(text.toks, 1)
    IN  IF r.ok /\ r.next = Len(text.toks) + 1
        THEN Ok(IF r.val.t = "list" THEN PyList(Reverse(r.val.l)) ELSE r.val)
        ELSE Raise("JSONDecodeError")

\* json.loads(text): the decoded value, or JSONDecodeError when the text is
\* not exactly one JSON value.
json_loads(text) ==
    LET r == ParseValue(text.toks, 1)
    IN  IF r.ok /\ r.next = Len(text.toks) + 1 THEN Ok(r.val)
        ELSE Raise("JSONDecodeError")

\* ------------------------------------------------- evaluation combinators
\* Outcome of an invocation: a returned string (its pieces, in order) or a
\* raised exception (its type, and the pieces of its message).
Returned(parts) == [kind |-> "return", exc |-> "", parts |-> parts]
Raised(e, parts) == [kind |-> "raise", exc |-> e, parts |-> parts]
NoOutcome == [kind |-> "none", exc |-> "", parts |-> <<>>]
Text(o) == Join(o.parts, "")

Lit(s) == Ok(PyStr(s))
\* {e} and {e:.2f} / {e:.1f} replacement fields over an evaluation e.
FStr(e) == IF e.exc # "" THEN e ELSE Ok(PyStr(Str(e.v)))
F2(e) == IF e.exc # "" THEN e ELSE format_2f(e.v)
F1(e) == IF e.exc # "" THEN e ELSE format_1f(e.v)

\* An f-string (or a chain of +=) evaluates its fields left to right: the
\* first field that raises ends the evaluation with that exception.
Build(evals) ==
    LET bad == {i \in DOMAIN evals : evals[i].exc # ""}
    IN  IF bad = {}
        THEN Returned(SelectSeq([i \in DOMAIN evals |-> evals[i].v.s], LAMBDA x : x # ""))
        ELSE Raised(evals[CHOOSE i \in bad : \A j \in bad : i <= j].exc, <<>>)

\* Variant: the remote error text is dropped for the generic one.
ToolError_generic(prefix, result) ==
    Raised("ToolError", <<prefix, "Unknown error">>)

\* raise ToolError(f"{prefix}{result.get('error', 'Unknown error')}")
ToolError(prefix, result) ==
    Raised("ToolError",
           <<prefix, Str(dict_get(result, "error", PyStr("Unknown error")).v)>>)

\* The shape every tool body shares:
\*     if result.get("success"): <render> else: raise ToolError(...)
\* result.get itself raises AttributeError when result is not a dict.
OnSuccess(result, prefix, rendered) ==
    LET s == dict_get(result, "success", PyNone)
    IN  IF s.exc # "" THEN Raised(s.exc, <<>>)
        ELSE IF Truthy(s.v) THEN rendered
        ELSE ToolError(prefix, result)

\* result.get("data", default) once result is known to be a dict.
Data(result, default) == dict_get(result, "data", default).v

PreviewCap == 5

\* v[:5]: a list or a str can be sliced, a dict cannot be indexed by a slice
\* (TypeError, or KeyError from Python 3.12 on), other values are not
\* subscriptable.
slice5(v) ==
    CASE v.t = "list" ->
            Ok(PyList(SubSeq(v.l, 1, IF Len(v.l) < PreviewCap THEN Len(v.l) ELSE PreviewCap)))
      [] v.t \in {"str", "text"} -> Ok(v)
      [] OTHER -> Raise("TypeError")

\* The elements a for loop draws from v: list items, dict keys, or the
\* characters of a str (each a str; one stands for all of them).
py_iter(v) ==
    CASE v.t = "list" -> Ok(v.l)
      [] v.t = "obj" ->
            LET keys == SelectSeq(ObjKeyOrder, LAMBDA k : k \in DOMAIN v.o)
            IN  Ok([i \in 1..Len(keys) |-> PyStr(keys[i])])
      [] v.t = "str" -> Ok(IF v.s = "" THEN <<>> ELSE <<PyStr("c")>>)
      [] v.t = "text" -> Ok([i \in 1..Len(v.toks) |-> PyStr("c")])
      [] OTHER -> Raise("TypeError")

\* item['key']
subscript(item, key) ==
    IF item.t = "obj" THEN (IF key \in DOMAIN item.o THEN Ok(item.o[key]) ELSE Raise("KeyError"))
    ELSE IF item.t \in {"str", "text", "list"} THEN Raise("TypeError")
    ELSE Raise("TypeError")

\* ----------------------------------------------------- call_inventory_api
API_BASE_URL == "http://localhost:3000"

\* Variant: the DELETE branch is missing, so the call falls through.
call_inventory_api_send_no_delete(endpoint, method, data) ==
    IF method = "GET"
    THEN <<[method |-> method, url |-> API_BASE_URL \o endpoint, endpoint |-> endpoint,
            hasBody |-> FALSE, body |-> PyNone]>>
    ELSE IF method \in {"POST", "PUT"}
    THEN <<[method |-> method, url |-> API_BASE_URL \o endpoint, endpoint |-> endpoint,
            hasBody |-> TRUE, body |-> data]>>
    ELSE <<>>

\* Variant: the DELETE branch passes json=data like POST and PUT.
call_inventory_api_send_body_on_delete(endpoint, method, data) ==
    IF method = "GET"
    THEN <<[method |-> method, url |-> API_BASE_URL \o endpoint, endpoint |-> endpoint,
            hasBody |-> FALSE, body |-> PyNone]>>
    ELSE IF method \in {"POST", "PUT", "DELETE"}
    THEN <<[method |-> method, url |-> API_BASE_URL \o endpoint, endpoint |-> endpoint,
            hasBody |-> TRUE, body |-> data]>>
    ELSE <<>>

\* The HTTP requests one call sends: session.get/delete(url) carry no body,
\* session.post/put(url, json=data) carry data; any other method sends none.
call_inventory_api_send(endpoint, method, data) ==
    IF method \in {"GET", "DELETE"}
    THEN <<[method |-> method, url |-> API_BASE_URL \o endpoint, endpoint |-> endpoint,
            hasBody |-> FALSE, body |-> PyNone]>>
    ELSE IF method \in {"POST", "PUT"}
    THEN <<[method |-> method, url |-> API_BASE_URL \o endpoint, endpoint |-> endpoint,
            hasBody |-> TRUE, body |-> data]>>
    ELSE <<>>

\* str(e) of the exception a failed exchange raises inside the try block.
FaultMessage(why) ==
    CASE why = "connect" -> "Cannot connect to host localhost:3000"
      [] why = "timeout" -> ""
      [] why = "nonjson" -> "Attempt to decode JSON with unexpected mimetype: text/html"

\* Variant: the except branch logs but has no return statement.
call_inventory_api_return_no_return(reply) ==
    IF reply.k = "fault" THEN PyNone ELSE reply.body

\* Variant: a status of 400 or more is turned into a failure (raise_for_status).
call_inventory_api_return_raise_for_status(reply) ==
    IF reply.k = "fault"
    THEN PyDict(("success" :> PyBool(FALSE)) @@ ("error" :> PyStr(FaultMessage(reply.why))))
    ELSE IF reply.status >= 400
    THEN PyDict(("success" :> PyBool(FALSE)) @@ ("error" :> PyStr(ToString(reply.status))))
    ELSE reply.body

\* What the call returns once the exchange is over: response.json() as it
\* is, or the dict built in the except branch.
call_inventory_api_return(reply) ==
    IF reply.k = "fault"
    THEN PyDict(("success" :> PyBool(FALSE)) @@ ("error" :> PyStr(FaultMessage(reply.why))))
    ELSE reply.body

\* logger.error in the except branch.
call_inventory_api_log(endpoint, reply) ==
    IF reply.k = "fault"
    THEN <<[level |-> "error",
            msg |-> "API call failed: " \o endpoint \o " - " \o FaultMessage(reply.why)]>>
    ELSE <<>>

\* ---------------------------------------------------------- argument sets
\* Each optional parameter on its own, away from its default.
OneAtATime(defaults, choices) ==
    {defaults} \cup
    UNION {{[defaults EXCEPT ![p] = v] : v \in choices[p]} : p \in DOMAIN choices}

\* Every subset of the optional parameters supplied together.
Together(defaults, typical) ==
    {[p \in DOMAIN defaults |-> IF p \in S THEN typical[p] ELSE defaults[p]] :
        S \in SUBSET DOMAIN typical}

TokenStrings == UNION {[1..n -> Tokens] : n \in 0..MaxTextLen}

\* The JSON text of a list of {category, amount} entries.
RECURSIVE EncodeEntries(_)
EncodeEntries(es) ==
    IF es = <<>> THEN <<>>
    ELSE IF Len(es) = 1 THEN es
    ELSE <<es[1], ",">> \o EncodeEntries(Tail(es))
EncodeList(es) == <<"[">> \o EncodeEntries(es) \o <<"]">>

EntryLists == UNION {[1..n -> {EntryMaterial, EntryEmbroidery}] : n \in 0..MaxEntries}

\* cost_breakdown texts: every short token string (most of them not JSON)
\* and every well-formed list of entries.
CostBreakdownTexts ==
    {PyText(t) : t \in TokenStrings} \cup {PyText(EncodeList(es)) : es \in EntryLists}

TypicalBreakdown == PyText(EncodeList(<<EntryMaterial, EntryEmbroidery>>))

\* ------------------------------------------------------------ add_product
add_product_defaults ==
    [name |-> PyStr("Silk Saree"), type |-> PyStr("sarees"), quantity |-> PyInt(30),
     price |-> PyFloat(45000), sku |-> PyNone, cost |-> PyNone,
     cost_breakdown |-> PyNone, description |-> PyNone, caption |-> PyNone]

add_product_choices ==
    [sku |-> {PyStr(""), PyStr("CC-003")},
     cost |-> {PyFloat(0), PyInt(0), PyFloat(35000)},
     cost_breakdown |-> CostBreakdownTexts,
     description |-> {PyStr(""), PyStr("Soft cotton")},
     caption |-> {PyStr(""), PyStr("Best seller")}]

add_product_typical ==
    [sku |-> PyStr("CC-003"), cost |-> PyFloat(35000),
     cost_breakdown |-> TypicalBreakdown,
     description |-> PyStr("Soft cotton"), caption |-> PyStr("Best seller")]

add_product_args ==
    OneAtATime(add_product_defaults, add_product_choices)
    \cup Together(add_product_defaults, add_product_typical)
    \cup {[(add_product_typical @@ add_product_defaults) EXCEPT !["cost_breakdown"] = t] :
            t \in CostBreakdownTexts}

\* Variant: the parsed value is kept only when it is a list.
cost_breakdown_field_lists_only(cost_breakdown) ==
    IF Truthy(cost_breakdown) /\ json_loads(cost_breakdown).exc = ""
       /\ json_loads(cost_breakdown).v.t = "list"
    THEN "costBreakdown" :> json_loads(cost_breakdown).v
    ELSE EmptyObj

\* if cost_breakdown: try: data["costBreakdown"] = json.loads(cost_breakdown)
\*                     except Exception: logger.warning(...)
cost_breakdown_field(cost_breakdown) ==
    IF Truthy(cost_breakdown) /\ json_loads(cost_breakdown).exc = ""
    THEN "costBreakdown" :> json_loads(cost_breakdown).v
    ELSE EmptyObj

cost_breakdown_log(cost_breakdown) ==
    IF Truthy(cost_breakdown) /\ json_loads(cost_breakdown).exc # ""
    THEN <<[level |-> "warning",
            msg |-> "Failed to parse cost_breakdown: " \o Str(cost_breakdown)]>>
    ELSE <<>>

\* Variant: `if cost:` in place of `if cost is not None:`.
add_product_data_truthy_cost(a) ==
    PyDict(("name" :> a.name) @@ ("type" :> a.type) @@ ("quantity" :> a.quantity)
           @@ ("price" :> a.price)
           @@ (IF Truthy(a.sku) THEN "sku" :> a.sku ELSE EmptyObj)
           @@ (IF Truthy(a.cost) THEN "cost" :> a.cost ELSE EmptyObj)
           @@ (IF Truthy(a.description) THEN "description" :> a.description ELSE EmptyObj)
           @@ (IF Truthy(a.caption) THEN "caption" :> a.caption ELSE EmptyObj)
           @@ cost_breakdown_field(a.cost_breakdown))

add_product_data(a) ==
    PyDict(("name" :> a.name) @@ ("type" :> a.type) @@ ("quantity" :> a.quantity)
           @@ ("price" :> a.price)
           @@ (IF Truthy(a.sku) THEN "sku" :> a.sku ELSE EmptyObj)
           @@ (IF a.cost # PyNone THEN "cost" :> a.cost ELSE EmptyObj)
           @@ (IF Truthy(a.description) THEN "description" :> a.description ELSE EmptyObj)
           @@ (IF Truthy(a.caption) THEN "caption" :> a.caption ELSE EmptyObj)
           @@ cost_breakdown_field(a.cost_breakdown))

add_product_endpoint(a) == "/api/products"

\* [f"{item['category']}: ${item['amount']}" for item in ...], joined by ", "
breakdown_items(items) ==
    Flatten([i \in 1..Len(items) |->
        (IF i = 1 THEN <<>> ELSE <<Lit(", ")>>) \o
        <<FStr(subscript(items[i], "category")), Lit(": $"),
          FStr(subscript(items[i], "amount"))>>])

add_product_return(a, result) ==
    OnSuccess(result, "Failed to add product: ",
        LET product == Data(result, PyDict(EmptyObj))
            cb == dict_get(product, "costBreakdown", PyNone)
            items == py_iter(cb.v)
            breakdown ==
                IF cb.exc # "" THEN Build(<<cb>>)
                ELSE IF ~Truthy(cb.v) THEN Returned(<<>>)
                ELSE IF items.exc # "" THEN Build(<<items>>)
                ELSE Build(<<Lit(" Cost breakdown: ")>> \o breakdown_items(items.v)
                           \o <<Lit(".")>>)
            main == Build(<<Lit("Successfully added "), FStr(Ok(a.quantity)),
                            Lit(" units of '"), FStr(Ok(a.name)), Lit("' (SKU: "),
                            FStr(dict_get(product, "sku", PyNone)),
                            Lit(") to inventory at $"), FStr(Ok(a.price)),
                            Lit(" per unit.")>>)
        IN  IF breakdown.kind = "raise" THEN breakdown
            ELSE IF main.kind = "raise" THEN main
            ELSE Returned(main.parts \o breakdown.parts))

\* --------------------------------------------------------- update_product
update_product_defaults ==
    [product_identifier |-> PyStr("BC-001"), name |-> PyNone, sku |-> PyNone,
     type |-> PyNone, quantity |-> PyNone, price |-> PyNone, cost |-> PyNone,
     cost_breakdown |-> PyNone, description |-> PyNone, caption |-> PyNone]

update_product_choices ==
    [name |-> {PyStr(""), PyStr("Royal Bed Cover")},
     sku |-> {PyStr(""), PyStr("BC-009")},
     type |-> {PyStr(""), PyStr("bed-covers")},
     quantity |-> {PyInt(0), PyInt(12)},
     price |-> {PyFloat(0), PyFloat(59990)},
     cost |-> {PyFloat(0), PyInt(0), PyFloat(35000)},
     cost_breakdown |-> CostBreakdownTexts,
     description |-> {PyStr(""), PyStr("Soft cotton")},
     caption |-> {PyStr(""), PyStr("Best seller")}]

update_product_typical ==
    [name |-> PyStr("Royal Bed Cover"), sku |-> PyStr("BC-009"),
     type |-> PyStr("bed-covers"), quantity |-> PyInt(12), price |-> PyFloat(59990),
     cost |-> PyFloat(35000), cost_breakdown |-> TypicalBreakdown,
     description |-> PyStr("Soft cotton"), caption |-> PyStr("Best seller")]

Identifiers == {PyStr("Blue Towel"), PyStr("BC-001"), PyStr("64f1c0ffee")}

update_product_args ==
    LET base == OneAtATime(update_product_defaults, update_product_choices)
                \cup Together(update_product_defaults, update_product_typical)
                \cup {[(update_product_typical @@ update_product_defaults)
                          EXCEPT !["cost_breakdown"] = t] : t \in CostBreakdownTexts}
    IN  base \cup {[update_product_defaults EXCEPT !["product_identifier"] = id] :
                      id \in Identifiers}

update_product_data(a) ==
    PyDict(("product_identifier" :> a.product_identifier)
           @@ (IF Truthy(a.name) THEN "name" :> a.name ELSE EmptyObj)
           @@ (IF Truthy(a.sku) THEN "sku" :> a.sku ELSE EmptyObj)
           @@ (IF Truthy(a.type) THEN "type" :> a.type ELSE EmptyObj)
           @@ (IF a.quantity # PyNone THEN "quantity" :> a.quantity ELSE EmptyObj)
           @@ (IF a.price # PyNone THEN "price" :> a.price ELSE EmptyObj)
           @@ (IF a.cost # PyNone THEN "cost" :> a.cost ELSE EmptyObj)
           @@ (IF Truthy(a.description) THEN "description" :> a.description ELSE EmptyObj)
           @@ (IF Truthy(a.caption) THEN "caption" :> a.caption ELSE EmptyObj)
           @@ cost_breakdown_field(a.cost_breakdown))

update_product_endpoint(a) == "/api/products/" \o Str(a.product_identifier)

\* Variant: fields_str is the join alone, with no "product details" fallback.
update_product_return_empty_join(a, result) ==
    OnSuccess(result, "Failed to update product: ",
        LET fields_updated ==
                (IF Truthy(a.name) THEN << <<Lit("name")>> >> ELSE <<>>)
                \o (IF a.price # PyNone
                    THEN << <<Lit("price ($"), FStr(Ok(a.price)), Lit(")")>> >> ELSE <<>>)
                \o (IF a.cost # PyNone
                    THEN << <<Lit("cost ($"), FStr(Ok(a.cost)), Lit(")")>> >> ELSE <<>>)
                \o (IF a.quantity # PyNone
                    THEN << <<Lit("quantity ("), FStr(Ok(a.quantity)), Lit(")")>> >>
                    ELSE <<>>)
            fields_str ==
                IF fields_updated # <<>>
                THEN Flatten([i \in 1..Len(fields_updated) |->
                        (IF i = 1 THEN <<>> ELSE <<Lit(", ")>>) \o fields_updated[i]])
                ELSE <<>>
        IN  Build(<<Lit("Successfully updated ")>> \o fields_str
                  \o <<Lit(" for '"), FStr(Ok(a.product_identifier)), Lit("'.")>>))

update_product_return(a, result) ==
    OnSuccess(result, "Failed to update product: ",
        LET fields_updated ==
                (IF Truthy(a.name) THEN << <<Lit("name")>> >> ELSE <<>>)
                \o (IF a.price # PyNone
                    THEN << <<Lit("price ($"), FStr(Ok(a.price)), Lit(")")>> >> ELSE <<>>)
                \o (IF a.cost # PyNone
                    THEN << <<Lit("cost ($"), FStr(Ok(a.cost)), Lit(")")>> >> ELSE <<>>)
                \o (IF a.quantity # PyNone
                    THEN << <<Lit("quantity ("), FStr(Ok(a.quantity)), Lit(")")>> >>
                    ELSE <<>>)
            fields_str ==
                IF fields_updated # <<>>
                THEN Flatten([i \in 1..Len(fields_updated) |->
                        (IF i = 1 THEN <<>> ELSE <<Lit(", ")>>) \o fields_updated[i]])
                ELSE <<Lit("product details")>>
        IN  Build(<<Lit("Successfully updated ")>> \o fields_str
                  \o <<Lit(" for '"), FStr(Ok(a.product_identifier)), Lit("'.")>>))

\* ------------------------------------------------------- update_inventory
update_inventory_defaults ==
    [product_name |-> PyStr("Blue Towel"), quantity_change |-> PyNone,
     new_quantity |-> PyNone]

update_inventory_args ==
    {[update_inventory_defaults EXCEPT !["quantity_change"] = c, !["new_quantity"] = n] :
        c \in {PyNone, PyInt(0), PyInt(5)}, n \in {PyNone, PyInt(0), PyInt(40)}}

\* Variant: the second test is an elif, so that the two modes exclude each other.
update_inventory_data_exclusive(a) ==
    PyDict(("product_name" :> a.product_name)
           @@ (IF a.quantity_change # PyNone
               THEN "quantity_change" :> a.quantity_change
               ELSE IF a.new_quantity # PyNone
               THEN "new_quantity" :> a.new_quantity ELSE EmptyObj))

update_inventory_data(a) ==
    PyDict(("product_name" :> a.product_name)
           @@ (IF a.quantity_change # PyNone
               THEN "quantity_change" :> a.quantity_change ELSE EmptyObj)
           @@ (IF a.new_quantity # PyNone
               THEN "new_quantity" :> a.new_quantity ELSE EmptyObj))

update_inventory_endpoint(a) == "/api/products/quantity/" \o Str(a.product_name)

update_inventory_return(a, result) ==
    OnSuccess(result, "Failed to update inventory: ",
        Build(<<Lit("Successfully updated inventory for '"), FStr(Ok(a.product_name)),
                Lit("'. "), FStr(dict_get(result, "message", PyStr("")))>>))

\* ---------------------------------------------------------- query strings
\* "&".join([f"{k}={v}" for k, v in params.items()]) over the (key, value)
\* pairs in insertion order.
QueryString(params) ==
    Join([i \in 1..Len(params) |-> params[i][1] \o "=" \o Str(params[i][2])], "&")

\* for x in <src>: the items the loop visits, or the exception that evaluating
\* or iterating <src> raises.
ForEach(src) == IF src.exc # "" THEN src ELSE py_iter(src.v)

\* response += <line> for each item, in order.
Lines(it, line) ==
    IF it.exc # "" THEN <<it>> ELSE Flatten([i \in 1..Len(it.v) |-> line[i]])

\* if len(coll) > 5: response += f"... and {len(coll) - 5} more<tail>"
Remainder(coll, tail) ==
    LET n == py_len(coll)
    IN  IF n.exc # "" THEN <<n>>
        ELSE IF n.v.i > PreviewCap
        THEN <<Lit("... and "), Lit(ToString(n.v.i - PreviewCap)), Lit(tail)>>
        ELSE <<>>

\* -------------------------------------------------------- search_products
search_products_defaults ==
    [search_term |-> PyNone, type |-> PyNone, low_stock |-> PyBool(FALSE)]

search_products_args ==
    {[search_term |-> s, type |-> t, low_stock |-> PyBool(l)] :
        s \in {PyNone, PyStr(""), PyStr("cc-002")},
        t \in {PyNone, PyStr(""), PyStr("towels")},
        l \in BOOLEAN}

\* Variant: the flag is put into the query whatever its value.
search_products_params_always_flag(a) ==
    (IF Truthy(a.search_term) THEN << <<"search", a.search_term>> >> ELSE <<>>)
    \o (IF Truthy(a.type) THEN << <<"type", a.type>> >> ELSE <<>>)
    \o << <<"lowStock", PyStr(IF Truthy(a.low_stock) THEN "true" ELSE "false")>> >>

search_products_params(a) ==
    (IF Truthy(a.search_term) THEN << <<"search", a.search_term>> >> ELSE <<>>)
    \o (IF Truthy(a.type) THEN << <<"type", a.type>> >> ELSE <<>>)
    \o (IF Truthy(a.low_stock) THEN << <<"lowStock", PyStr("true")>> >> ELSE <<>>)

search_products_endpoint(a) ==
    LET query_string == QueryString(search_products_params(a))
    IN  IF query_string # "" THEN "/api/products?" \o query_string ELSE "/api/products"

search_products_line(p) ==
    <<Lit("- "), FStr(dict_get(p, "name", PyNone)),
      Lit(" (SKU: "), FStr(dict_get(p, "sku", PyNone)),
      Lit(", Quantity: "), FStr(dict_get(p, "quantity", PyNone)),
      Lit(", Price: $"), FStr(dict_get(p, "price", PyNone)), Lit(")\n")>>

search_products_lines(products) ==
    LET it == ForEach(slice5(products))
    IN  Lines(it, [i \in 1..Len(it.v) |-> search_products_line(it.v[i])])

search_products_return(a, result) ==
    OnSuccess(result, "Search failed: ",
        LET products == Data(result, PyList(<<>>))
        IN  IF ~Truthy(products)
            THEN Returned(<<"No products found matching your search.">>)
            ELSE Build(<<Lit("Found "), FStr(py_len(products)), Lit(" product(s):\n")>>
                       \o search_products_lines(products)
                       \o Remainder(products, " more.")))

\* ---------------------------------------------------------- list_products
list_products_defaults == [type |-> PyNone, low_stock |-> PyBool(FALSE)]

list_products_args ==
    {[type |-> t, low_stock |-> PyBool(l)] :
        t \in {PyNone, PyStr(""), PyStr("all"), PyStr("sarees")}, l \in BOOLEAN}

list_products_params(a) ==
    (IF Truthy(a.type) /\ a.type # PyStr("all") THEN << <<"type", a.type>> >> ELSE <<>>)
    \o (IF Truthy(a.low_stock) THEN << <<"lowStock", PyStr("true")>> >> ELSE <<>>)

list_products_endpoint(a) ==
    LET query_string == QueryString(list_products_params(a))
    IN  IF query_string # "" THEN "/api/products?" \o query_string ELSE "/api/products"

list_products_line(p) ==
    <<Lit("- "), FStr(dict_get(p, "name", PyNone)),
      Lit(" (SKU: "), FStr(dict_get(p, "sku", PyNone)),
      Lit(", Qty: "), FStr(dict_get(p, "quantity", PyNone)),
      Lit(", Price: $"), FStr(dict_get(p, "price", PyNone)), Lit(")\n")>>

list_products_lines(products) ==
    LET it == ForEach(slice5(products))
    IN  Lines(it, [i \in 1..Len(it.v) |-> list_products_line(it.v[i])])

list_products_return(a, result) ==
    OnSuccess(result, "Failed to list products: ",
        LET products == Data(result, PyList(<<>>))
        IN  IF ~Truthy(products) THEN Returned(<<"No products found.">>)
            ELSE Build(<<Lit("Found "), FStr(py_len(products)), Lit(" product(s):\n")>>
                       \o list_products_lines(products)
                       \o Remainder(products, " more.")))

\* ------------------------------------------------------------ get_product
get_product_defaults == [product_identifier |-> PyStr("BC-001")]
get_product_args == {[product_identifier |-> id] : id \in Identifiers}

\* Variant: the identifier is normalised to lower case before it is sent.
get_product_endpoint_lowercased(a) ==
    "/api/products/" \o (CASE a.product_identifier = PyStr("Blue Towel") -> "blue towel"
                         [] a.product_identifier = PyStr("BC-001") -> "bc-001"
                         [] OTHER -> Str(a.product_identifier))

get_product_endpoint(a) == "/api/products/" \o Str(a.product_identifier)

get_product_return(a, result) ==
    OnSuccess(result, "Product not found: ",
        LET product == Data(result, PyDict(EmptyObj))
        IN  Build(<<Lit("Product: "), FStr(dict_get(product, "name", PyNone)),
                    Lit(", SKU: "), FStr(dict_get(product, "sku", PyNone)),
                    Lit(", Type: "), FStr(dict_get(product, "type", PyNone)),
                    Lit(", Quantity: "), FStr(dict_get(product, "quantity", PyNone)),
                    Lit(", Price: $"), FStr(dict_get(product, "price", PyNone)),
                    Lit(", Cost: $"), FStr(dict_get(product, "cost", PyInt(0)))>>))

\* --------------------------------------------------------- delete_product
delete_product_defaults == [product_identifier |-> PyStr("BC-001")]
delete_product_args == {[product_identifier |-> id] : id \in Identifiers}

delete_product_endpoint(a) == "/api/products/" \o Str(a.product_identifier)

delete_product_return(a, result) ==
    OnSuccess(result, "Failed to delete product: ",
        Build(<<Lit("Successfully deleted product '"), FStr(Ok(a.product_identifier)),
                Lit("'.")>>))

\* ------------------------------------------------------------ record_sale
record_sale_defaults ==
    [product_name |-> PyStr("BC-001"), quantity |-> PyInt(2), sell_price |-> PyNone]

record_sale_args ==
    {[record_sale_defaults EXCEPT !["sell_price"] = sp] :
        sp \in {PyNone, PyFloat(0), PyInt(0), PyFloat(49500)}}

\* Variant: sellPrice is put in the body whether or not it was given.
record_sale_data_always_price(a) ==
    PyDict(("productName" :> a.product_name) @@ ("quantity" :> a.quantity)
           @@ ("sellPrice" :> a.sell_price))

record_sale_data(a) ==
    PyDict(("productName" :> a.product_name) @@ ("quantity" :> a.quantity)
           @@ (IF a.sell_price # PyNone THEN "sellPrice" :> a.sell_price ELSE EmptyObj))

record_sale_endpoint(a) == "/api/sales"

\* Variant: the amounts go through plain {x} fields, without :.2f.
record_sale_return_plain_amounts(a, result) ==
    OnSuccess(result, "Failed to record sale: ",
        LET sale == Data(result, PyDict(EmptyObj))
        IN  Build(<<Lit("Sale recorded! Sold "), FStr(Ok(a.quantity)), Lit(" units of "),
                    FStr(Ok(a.product_name)), Lit(". "),
                    Lit("Total: $"), FStr(dict_get(sale, "totalSaleValue", PyInt(0))),
                    Lit(", "),
                    Lit("Profit: $"), FStr(dict_get(sale, "profit", PyInt(0)))>>))

record_sale_return(a, result) ==
    OnSuccess(result, "Failed to record sale: ",
        LET sale == Data(result, PyDict(EmptyObj))
        IN  Build(<<Lit("Sale recorded! Sold "), FStr(Ok(a.quantity)), Lit(" units of "),
                    FStr(Ok(a.product_name)), Lit(". "),
                    Lit("Total: $"), F2(dict_get(sale, "totalSaleValue", PyInt(0))),
                    Lit(", "),
                    Lit("Profit: $"), F2(dict_get(sale, "profit", PyInt(0)))>>))

\* ------------------------------------------------------ get_sales_history
get_sales_history_defaults ==
    [product_name |-> PyNone, start_date |-> PyNone, end_date |-> PyNone,
     limit |-> PyInt(10)]

get_sales_history_choices ==
    [product_name |-> {PyStr(""), PyStr("BC-001")},
     start_date |-> {PyStr(""), PyStr("2025-01-01")},
     end_date |-> {PyStr(""), PyStr("2025-01-31")},
     limit |-> {PyInt(0), PyInt(3)}]

get_sales_history_typical ==
    [product_name |-> PyStr("BC-001"), start_date |-> PyStr("2025-01-01"),
     end_date |-> PyStr("2025-01-31"), limit |-> PyInt(3)]

get_sales_history_args ==
    OneAtATime(get_sales_history_defaults, get_sales_history_choices)
    \cup Together(get_sales_history_defaults, get_sales_history_typical)

get_sales_history_params(a) ==
    << <<"limit", PyStr(Str(a.limit))>> >>
    \o (IF Truthy(a.product_name) THEN << <<"product", a.product_name>> >> ELSE <<>>)
    \o (IF Truthy(a.start_date) THEN << <<"startDate", a.start_date>> >> ELSE <<>>)
    \o (IF Truthy(a.end_date) THEN << <<"endDate", a.end_date>> >> ELSE <<>>)

get_sales_history_endpoint(a) ==
    "/api/sales?" \o QueryString(get_sales_history_params(a))

\* Variant: the isinstance test is missing.
sale_product_name_no_isinstance(sale) ==
    LET pid == dict_get(sale, "productId", PyDict(EmptyObj))
    IN  IF pid.exc # "" THEN pid ELSE dict_get(pid.v, "name", PyStr("Unknown"))

\* sale.get('productId', {}).get('name', 'Unknown')
\*     if isinstance(sale.get('productId'), dict) else 'Unknown'
sale_product_name(sale) ==
    LET pid == dict_get(sale, "productId", PyNone)
    IN  IF pid.exc # "" THEN pid
        ELSE IF pid.v.t = "obj" THEN dict_get(pid.v, "name", PyStr("Unknown"))
        ELSE Ok(PyStr("Unknown"))

get_sales_history_line(sale) ==
    <<Lit("- "), FStr(sale_product_name(sale)),
      Lit(" ("), FStr(dict_get(sale, "quantity", PyNone)), Lit(" units, "),
      Lit("$"), F2(dict_get(sale, "totalSaleValue", PyInt(0))),
      Lit(", Profit: $"), F2(dict_get(sale, "profit", PyInt(0))), Lit(")\n")>>

get_sales_history_lines(sales) ==
    LET it == ForEach(slice5(sales))
    IN  Lines(it, [i \in 1..Len(it.v) |-> get_sales_history_line(it.v[i])])

get_sales_history_return(a, result) ==
    OnSuccess(result, "Failed to get sales history: ",
        LET sales == Data(result, PyList(<<>>))
        IN  IF ~Truthy(sales)
            THEN Returned(<<"No sales found for the specified criteria.">>)
            ELSE Build(<<Lit("Found "), FStr(py_len(sales)), Lit(" sale(s):\n")>>
                       \o get_sales_history_lines(sales)))

\* ------------------------------------------------------- get_recent_sales
get_recent_sales_defaults == [limit |-> PyInt(5)]
get_recent_sales_args == {[limit |-> PyInt(n)] : n \in {5, 0, 3}}

get_recent_sales_params(a) == << <<"limit", a.limit>> >>
get_recent_sales_endpoint(a) == "/api/sales?" \o QueryString(get_recent_sales_params(a))

get_recent_sales_line(sale) ==
    <<Lit("- "), FStr(sale_product_name(sale)), Lit(" "),
      Lit("("), FStr(dict_get(sale, "quantity", PyNone)), Lit(" units, $"),
      F2(dict_get(sale, "totalSaleValue", PyInt(0))), Lit(")\n")>>

get_recent_sales_lines(sales) ==
    LET it == ForEach(Ok(sales))
    IN  Lines(it, [i \in 1..Len(it.v) |-> get_recent_sales_line(it.v[i])])

get_recent_sales_return(a, result) ==
    OnSuccess(result, "Failed to get sales: ",
        LET sales == Data(result, PyList(<<>>))
        IN  IF ~Truthy(sales) THEN Returned(<<"No sales recorded yet.">>)
            ELSE Build(<<Lit("Recent "), FStr(py_len(sales)), Lit(" sale(s):\n")>>
                       \o get_recent_sales_lines(sales)))

\* -------------------------------------------------- get_inventory_summary
get_inventory_summary_defaults == [none |-> PyNone]
get_inventory_summary_args == {get_inventory_summary_defaults}

get_inventory_summary_endpoint(a) == "/api/analytics/summary"

get_inventory_summary_return(a, result) ==
    OnSuccess(result, "Failed to get summary: ",
        LET summary == Data(result, PyDict(EmptyObj))
        IN  Build(<<Lit("Inventory Summary: "),
                    FStr(dict_get(summary, "totalProducts", PyInt(0))), Lit(" products, "),
                    Lit("Total value: $"), F2(dict_get(summary, "totalValue", PyInt(0))),
                    Lit(", "),
                    Lit("Low stock items: "),
                    FStr(dict_get(summary, "lowStockCount", PyInt(0)))>>))

\* --------------------------------------------------------- view_analytics
Periods == {PyStr("month"), PyStr("2months"), PyStr("decade"), PyStr("")}

view_analytics_defaults == [period |-> PyStr("month")]
view_analytics_args == {[period |-> p] : p \in Periods}

view_analytics_params(a) == << <<"period", a.period>> >>
\* Variant: a period outside the documented values is replaced by the default.
view_analytics_endpoint_documented_period(a) ==
    "/api/analytics/profit?" \o
        QueryString(<< <<"period",
            IF a.period \in {PyStr("today"), PyStr("week"), PyStr("month"),
                             PyStr("2months"), PyStr("year"), PyStr("all")}
            THEN a.period ELSE view_analytics_defaults.period>> >>)

view_analytics_endpoint(a) ==
    "/api/analytics/profit?" \o QueryString(view_analytics_params(a))

view_analytics_return(a, result) ==
    OnSuccess(result, "Failed to get analytics: ",
        LET data == Data(result, PyDict(EmptyObj))
        IN  Build(<<Lit("Analytics for "), FStr(Ok(a.period)), Lit(": "),
                    Lit("Revenue: $"), F2(dict_get(data, "totalRevenue", PyInt(0))),
                    Lit(", "),
                    Lit("Profit: $"), F2(dict_get(data, "totalProfit", PyInt(0))),
                    Lit(", "),
                    Lit("Sales: "), FStr(dict_get(data, "salesCount", PyInt(0))),
                    Lit(", "),
                    Lit("Profit margin: "), F1(dict_get(data, "profitMargin", PyInt(0))),
                    Lit("%")>>))

\* ------------------------------------------------------- get_profit_stats
get_profit_stats_defaults == [period |-> PyStr("month")]
get_profit_stats_args == {[period |-> p] : p \in Periods}

get_profit_stats_params(a) == << <<"period", a.period>> >>
get_profit_stats_endpoint(a) ==
    "/api/analytics/profit?" \o QueryString(get_profit_stats_params(a))

get_profit_stats_return(a, result) ==
    OnSuccess(result, "Failed to get profit stats: ",
        LET data == Data(result, PyDict(EmptyObj))
        IN  Build(<<Lit("Profit stats for "), FStr(Ok(a.period)), Lit(": "),
                    Lit("Total profit: $"), F2(dict_get(data, "totalProfit", PyInt(0))),
                    Lit(", "),
                    Lit("Revenue: $"), F2(dict_get(data, "totalRevenue", PyInt(0))),
                    Lit(", "),
                    Lit("Cost: $"), F2(dict_get(data, "totalCost", PyInt(0))),
                    Lit(", "),
                    Lit("Average profit per sale: $"),
                    F2(dict_get(data, "averageProfit", PyInt(0)))>>))

\* ---------------------------------------------------- get_monthly_profits
get_monthly_profits_defaults == [months |-> PyInt(6)]
get_monthly_profits_args == {[months |-> PyInt(n)] : n \in {6, 0, 3}}

get_monthly_profits_params(a) == << <<"months", a.months>> >>
get_monthly_profits_endpoint(a) ==
    "/api/analytics/monthly-profits?" \o QueryString(get_monthly_profits_params(a))

get_monthly_profits_line(month_data) ==
    <<Lit("- "), FStr(dict_get(month_data, "month", PyStr("Unknown"))), Lit(": $"),
      F2(dict_get(month_data, "profit", PyInt(0))), Lit("\n")>>

get_monthly_profits_lines(data) ==
    LET it == ForEach(slice5(data))
    IN  Lines(it, [i \in 1..Len(it.v) |-> get_monthly_profits_line(it.v[i])])

get_monthly_profits_return(a, result) ==
    OnSuccess(result, "Failed to get monthly profits: ",
        LET data == Data(result, PyList(<<>>))
        IN  IF ~Truthy(data) THEN Returned(<<"No profit data available.">>)
            ELSE Build(<<Lit("Monthly profits (last "), FStr(Ok(a.months)),
                         Lit(" months):\n")>>
                       \o get_monthly_profits_lines(data)))

\* ------------------------------------------------------- get_top_products
get_top_products_defaults ==
    [period |-> PyStr("month"), sort_by |-> PyStr("revenue"), limit |-> PyInt(5)]

get_top_products_args ==
    {[period |-> p, sort_by |-> s, limit |-> PyInt(n)] :
        p \in Periods, s \in {PyStr("revenue"), PyStr("profit")}, n \in {5, 3}}

get_top_products_params(a) ==
    << <<"period", a.period>>, <<"sortBy", a.sort_by>>, <<"limit", a.limit>> >>
get_top_products_endpoint(a) ==
    "/api/analytics/top-products?" \o QueryString(get_top_products_params(a))

\* for i, p in enumerate(products, 1)
get_top_products_lines(products) ==
    LET it == py_iter(products)
    IN  IF it.exc # "" THEN <<it>>
        ELSE Flatten([i \in 1..Len(it.v) |->
                <<Lit(ToString(i)), Lit(". "),
                  FStr(dict_get(it.v[i], "name", PyStr("Unknown"))),
                  Lit(" (SKU: "), FStr(dict_get(it.v[i], "sku", PyStr("N/A"))),
                  Lit(", Profit: $"), F2(dict_get(it.v[i], "profit", PyInt(0))),
                  Lit(")\n")>>])

\* Variant: the `if not products` test is missing.
get_top_products_return_no_empty_test(a, result) ==
    OnSuccess(result, "Failed to get top products: ",
        LET products == Data(result, PyList(<<>>))
        IN  Build(<<Lit("Top "), FStr(py_len(products)), Lit(" product(s) by "),
                    FStr(Ok(a.sort_by)), Lit(" for "), FStr(Ok(a.period)),
                    Lit(":\n")>>
                  \o get_top_products_lines(products)))

get_top_products_return(a, result) ==
    OnSuccess(result, "Failed to get top products: ",
        LET products == Data(result, PyList(<<>>))
        IN  IF ~Truthy(products)
            THEN Returned(<<"No sales data available for ", Str(a.period), ".">>)
            ELSE Build(<<Lit("Top "), FStr(py_len(products)), Lit(" product(s) by "),
                         FStr(Ok(a.sort_by)), Lit(" for "), FStr(Ok(a.period)),
                         Lit(":\n")>>
                       \o get_top_products_lines(products)))

\* --------------------------------------------------- get_low_stock_alerts
get_low_stock_alerts_defaults == [threshold |-> PyInt(10)]
get_low_stock_alerts_args == {[threshold |-> PyInt(n)] : n \in {10, 0, 3}}

get_low_stock_alerts_params(a) == << <<"threshold", a.threshold>> >>
get_low_stock_alerts_endpoint(a) ==
    "/api/analytics/low-stock?" \o QueryString(get_low_stock_alerts_params(a))

get_low_stock_alerts_line(p) ==
    <<Lit("- "), FStr(dict_get(p, "name", PyNone)),
      Lit(" (Quantity: "), FStr(dict_get(p, "quantity", PyNone)),
      Lit(", SKU: "), FStr(dict_get(p, "sku", PyNone)), Lit(")\n")>>

get_low_stock_alerts_lines(products) ==
    LET it == ForEach(slice5(products))
    IN  Lines(it, [i \in 1..Len(it.v) |-> get_low_stock_alerts_line(it.v[i])])

get_low_stock_alerts_return(a, result) ==
    OnSuccess(result, "Failed to get alerts: ",
        LET products == Data(result, PyList(<<>>))
        IN  IF ~Truthy(products)
            THEN Returned(<<"No low stock alerts. All products are well stocked.">>)
            ELSE Build(<<FStr(py_len(products)), Lit(" low stock alert(s):\n")>>
                       \o get_low_stock_alerts_lines(products)
                       \o Remainder(products, " more items need restocking.")))

\* ------------------------------------------------------- get_sales_trends
get_sales_trends_defaults == [period |-> PyStr("month")]
get_sales_trends_args == {[period |-> p] : p \in Periods}

get_sales_trends_params(a) == << <<"period", a.period>> >>
get_sales_trends_endpoint(a) ==
    "/api/analytics/trends?" \o QueryString(get_sales_trends_params(a))

get_sales_trends_return(a, result) ==
    OnSuccess(result, "Failed to get trends: ",
        LET data == Data(result, PyDict(EmptyObj))
        IN  Build(<<Lit("Sales trends for "), FStr(Ok(a.period)), Lit(": "),
                    Lit("Total sales: "), FStr(dict_get(data, "totalSales", PyInt(0))),
                    Lit(", "),
                    Lit("Average per day: "),
                    F1(dict_get(data, "averagePerDay", PyInt(0))), Lit(", "),
                    Lit("Trend: "), FStr(dict_get(data, "trend", PyStr("stable")))>>))

\* ------------------------------------------------------- remote responses
FullItem ==
    PyDict([name |-> PyStr("Blue Towel"), sku |-> PyStr("TW-001"),
            type |-> PyStr("towels"), quantity |-> PyInt(12), price |-> PyFloat(15500),
            cost |-> PyFloat(9000),
            costBreakdown |-> PyList(<<EntryValue(EntryMaterial)>>),
            totalSaleValue |-> PyFloat(100000), profit |-> PyFloat(40000),
            productId |-> PyDict([name |-> PyStr("Blue Towel")]),
            month |-> PyStr("2025-01"), totalProducts |-> PyInt(4),
            totalValue |-> PyFloat(1234500), lowStockCount |-> PyInt(1),
            totalRevenue |-> PyFloat(15420500), totalProfit |-> PyFloat(6840200),
            totalCost |-> PyFloat(8580300), salesCount |-> PyInt(42),
            profitMargin |-> PyFloat(44358), averageProfit |-> PyFloat(163000),
            totalSales |-> PyInt(42), averagePerDay |-> PyFloat(1400),
            trend |-> PyStr("up")])

\* The same fields, every one of them null.
NullItem == PyDict([k \in DOMAIN FullItem.o |-> PyNone])

Items == {FullItem, NullItem, PyDict(EmptyObj), PyInt(7)}
ItemLists == UNION {[1..n -> Items] : n \in 0..MaxItems}

\* Collections longer than one screenful: well-formed items that differ in
\* the text each renderer shows for them (name, productId.name, month).
ItemLabel(i) == "item" \o ToString(i)
NumberedItem(i) ==
    PyDict([FullItem.o EXCEPT !.name = PyStr(ItemLabel(i)),
                              !.productId = PyDict([name |-> PyStr(ItemLabel(i))]),
                              !.month = PyStr(ItemLabel(i))])
ListLengths == {3, 5, 6, 8}
NumberedLists == {[i \in 1..n |-> NumberedItem(i)] : n \in ListLengths}

\* An object that has some of the consumed amounts and lacks the others.
PartialItem ==
    PyDict([totalSaleValue |-> PyFloat(100000), totalProfit |-> PyInt(6840),
            totalCost |-> PyFloat(8580300), profitMargin |-> PyFloat(44358)])

\* Sales whose productId is not the object with a name that the sales
\* renderers unwrap: absent, a string, a number, null, an object without name.
NoProductId == [k \in DOMAIN FullItem.o \ {"productId"} |-> FullItem.o[k]]
OddProductSales ==
    {PyDict(NoProductId)}
    \cup {PyDict([FullItem.o EXCEPT !.productId = v]) :
            v \in {PyStr("64f1c0ffee"), PyInt(7), PyNone, PyDict(EmptyObj)}}
OddProductLists == {<<NumberedItem(1), sale, NumberedItem(3)>> : sale \in OddProductSales}

DataValues ==
    {PyNone, PyInt(7), PyStr("oops"), FullItem, NullItem, PartialItem, PyDict(EmptyObj)}
    \cup {PyList(l) : l \in ItemLists \cup NumberedLists \cup OddProductLists}

Absent == [t |-> "absent"]
Field(key, v) == IF v = Absent THEN EmptyObj ELSE key :> v
Envelope(success, error, message, data) ==
    PyDict(Field("success", success) @@ Field("error", error)
           @@ Field("message", message) @@ Field("data", data))

FailureEnvelopes ==
    {Envelope(s, e, Absent, Absent) :
        s \in {Absent, PyBool(FALSE), PyNone},
        e \in {Absent, PyStr(""), PyStr("Product not found")}}

SuccessEnvelopes ==
    {Envelope(PyBool(TRUE), Absent, Absent, d) : d \in {Absent} \cup DataValues}
    \cup {Envelope(PyBool(TRUE), Absent, PyStr("Quantity is now 5"), Absent),
          Envelope(PyInt(1), Absent, Absent, FullItem)}

\* Valid JSON that is no envelope at all.
NonObjectBodies == {PyNone, PyList(<<>>), PyStr("Not Found"), PyInt(404)}

JsonReply(status, body) == [k |-> "json", why |-> "", status |-> status, body |-> body]
FaultReply(why) == [k |-> "fault", why |-> why, status |-> 0, body |-> PyNone]
NoReply == [k |-> "none", why |-> "", status |-> 0, body |-> PyNone]

\* How one exchange can end: a fault raised inside the try block, or a JSON
\* body under some HTTP status.
Replies ==
    {FaultReply(w) : w \in {"connect", "timeout", "nonjson"}}
    \cup {JsonReply(200, b) : b \in FailureEnvelopes \cup SuccessEnvelopes \cup NonObjectBodies}
    \cup {JsonReply(500, b) : b \in FailureEnvelopes}
    \cup {JsonReply(404, Envelope(PyBool(TRUE), Absent, Absent, FullItem)),
          JsonReply(201, Envelope(PyBool(TRUE), Absent, Absent, FullItem)),
          JsonReply(404, PyStr("Not Found"))}

\* ----------------------------------------------------------- state machine
VARIABLES
    pc,         \* "idle", "awaiting" (suspended in the exchange), "done"
    op,         \* the operation invoked
    args,       \* its arguments, defaults filled in
    requests,   \* the HTTP requests sent so far in this invocation
    query,      \* the key/value pairs the endpoint's query string was built from
    sessions,   \* aiohttp.ClientSession objects open
    reply,      \* how the exchange ended
    result,     \* what call_inventory_api returned
    outcome,    \* what the operation returned or raised
    log,        \* records logged in this invocation
    calls,      \* overlapping invocations: the local state of each
    open        \* the ClientSession objects open among overlapping invocations

vars == <<pc, op, args, requests, query, sessions, reply, result, outcome, log,
          calls, open>>

\* How many invocations the hosting runtime lets overlap.
MaxCalls == 2
Calls == 1..MaxCalls

\* The local variables of an invocation that has not started.
IdleCall ==
    [pc |-> "idle", op |-> "", args |-> EmptyObj, requests |-> <<>>, session |-> 0,
     reply |-> NoReply, result |-> PyNone, outcome |-> NoOutcome]

Init ==
    /\ pc = "idle"
    /\ op = ""
    /\ args = EmptyObj
    /\ requests = <<>>
    /\ query = <<>>
    /\ sessions = 0
    /\ reply = NoReply
    /\ result = PyNone
    /\ outcome = NoOutcome
    /\ log = <<>>
    /\ calls = [c \in Calls |-> IdleCall]
    /\ open = {}

\* The operation runs up to `await call_inventory_api(...)`, which opens a
\* session, sends the request and suspends.
Issue(o, a, endpoint, method, data, params, logged) ==
    /\ pc = "idle"
    /\ pc' = "awaiting"
    /\ op' = o
    /\ args' = a
    /\ requests' = call_inventory_api_send(endpoint, method, data)
    /\ query' = [i \in 1..Len(params) |-> <<params[i][1], Str(params[i][2])>>]
    /\ sessions' = 1
    /\ log' = logged
    /\ UNCHANGED <<reply, result, outcome, calls, open>>

add_product ==
    \E a \in add_product_args :
        Issue("add_product", a, add_product_endpoint(a), "POST", add_product_data(a),
              <<>>, cost_breakdown_log(a.cost_breakdown))

update_product ==
    \E a \in update_product_args :
        Issue("update_product", a, update_product_endpoint(a), "PUT",
              update_product_data(a), <<>>, cost_breakdown_log(a.cost_breakdown))

update_inventory ==
    \E a \in update_inventory_args :
        Issue("update_inventory", a, update_inventory_endpoint(a), "PUT",
              update_inventory_data(a), <<>>, <<>>)

search_products ==
    \E a \in search_products_args :
        Issue("search_products", a, search_products_endpoint(a), "GET", PyNone,
              search_products_params(a), <<>>)

list_products ==
    \E a \in list_products_args :
        Issue("list_products", a, list_products_endpoint(a), "GET", PyNone,
              list_products_params(a), <<>>)

get_product ==
    \E a \in get_product_args :
        Issue("get_product", a, get_product_endpoint(a), "GET", PyNone, <<>>, <<>>)

delete_product ==
    \E a \in delete_product_args :
        Issue("delete_product", a, delete_product_endpoint(a), "DELETE", PyNone,
              <<>>, <<>>)

record_sale ==
    \E a \in record_sale_args :
        Issue("record_sale", a, record_sale_endpoint(a), "POST", record_sale_data(a),
              <<>>, <<>>)

get_sales_history ==
    \E a \in get_sales_history_args :
        Issue("get_sales_history", a, get_sales_history_endpoint(a), "GET", PyNone,
              get_sales_history_params(a), <<>>)

get_recent_sales ==
    \E a \in get_recent_sales_args :
        Issue("get_recent_sales", a, get_recent_sales_endpoint(a), "GET", PyNone,
              get_recent_sales_params(a), <<>>)

get_inventory_summary ==
    \E a \in get_inventory_summary_args :
        Issue("get_inventory_summary", a, get_inventory_summary_endpoint(a), "GET",
              PyNone, <<>>, <<>>)

view_analytics ==
    \E a \in view_analytics_args :
        Issue("view_analytics", a, view_analytics_endpoint(a), "GET", PyNone,
              view_analytics_params(a), <<>>)

get_profit_stats ==
    \E a \in get_profit_stats_args :
        Issue("get_profit_stats", a, get_profit_stats_endpoint(a), "GET", PyNone,
              get_profit_stats_params(a), <<>>)

get_monthly_profits ==
    \E a \in get_monthly_profits_args :
        Issue("get_monthly_profits", a, get_monthly_profits_endpoint(a), "GET", PyNone,
              get_monthly_profits_params(a), <<>>)

get_top_products ==
    \E a \in get_top_products_args :
        Issue("get_top_products", a, get_top_products_endpoint(a), "GET", PyNone,
              get_top_products_params(a), <<>>)

get_low_stock_alerts ==
    \E a \in get_low_stock_alerts_args :
        Issue("get_low_stock_alerts", a, get_low_stock_alerts_endpoint(a), "GET",
              PyNone, get_low_stock_alerts_params(a), <<>>)

get_sales_trends ==
    \E a \in get_sales_trends_args :
        Issue("get_sales_trends", a, get_sales_trends_endpoint(a), "GET", PyNone,
              get_sales_trends_params(a), <<>>)

\* The code after the await, per operation.
Finish(o, a, res) ==
    CASE o = "add_product" -> add_product_return(a, res)
      [] o = "update_product" -> update_product_return(a, res)
      [] o = "update_inventory" -> update_inventory_return(a, res)
      [] o = "search_products" -> search_products_return(a, res)
      [] o = "list_products" -> list_products_return(a, res)
      [] o = "get_product" -> get_product_return(a, res)
      [] o = "delete_product" -> delete_product_return(a, res)
      [] o = "record_sale" -> record_sale_return(a, res)
      [] o = "get_sales_history" -> get_sales_history_return(a, res)
      [] o = "get_recent_sales" -> get_recent_sales_return(a, res)
      [] o = "get_inventory_summary" -> get_inventory_summary_return(a, res)
      [] o = "view_analytics" -> view_analytics_return(a, res)
      [] o = "get_profit_stats" -> get_profit_stats_return(a, res)
      [] o = "get_monthly_profits" -> get_monthly_profits_return(a, res)
      [] o = "get_top_products" -> get_top_products_return(a, res)
      [] o = "get_low_stock_alerts" -> get_low_stock_alerts_return(a, res)
      [] o = "get_sales_trends" -> get_sales_trends_return(a, res)

\* The exchange ends: the session closes, call_inventory_api returns and the
\* operation runs to its return or raise without suspending again.
Exchange ==
    /\ pc = "awaiting"
    /\ \E r \in Replies :
        /\ reply' = r
        /\ result' = call_inventory_api_return(r)
        /\ outcome' = Finish(op, args, call_inventory_api_return(r))
        /\ log' = log \o call_inventory_api_log(requests[1].endpoint, r)
    /\ sessions' = 0
    /\ pc' = "done"
    /\ UNCHANGED <<op, args, requests, query, calls, open>>

\* How a cancelled exchange ends.
CancelReply == [k |-> "cancelled", why |-> "", status |-> 0, body |-> PyNone]

\* Variant: the handler is `except BaseException`, which takes the
\* cancellation for a fault of the exchange.
Cancel_caught ==
    /\ pc = "awaiting"
    /\ reply' = CancelReply
    /\ result' = PyDict(("success" :> PyBool(FALSE)) @@ ("error" :> PyStr("")))
    /\ outcome' = Finish(op, args,
                         PyDict(("success" :> PyBool(FALSE)) @@ ("error" :> PyStr(""))))
    /\ log' = log \o <<[level |-> "error",
                        msg |-> "API call failed: " \o requests[1].endpoint \o " - "]>>
    /\ sessions' = 0
    /\ pc' = "done"
    /\ UNCHANGED <<op, args, requests, query, calls, open>>

\* The runtime cancels the task while it is suspended in the exchange:
\* asyncio.CancelledError is raised at the await. It is a BaseException, so
\* `except Exception` does not take it; the async with blocks close the
\* response and the session on the way out, and the error leaves the helper
\* and the operation, neither of which returns.
Cancel ==
    /\ pc = "awaiting"
    /\ reply' = CancelReply
    /\ outcome' = Raised("CancelledError", <<>>)
    /\ sessions' = 0
    /\ pc' = "done"
    /\ UNCHANGED <<op, args, requests, query, result, log, calls, open>>

\* The hosting runtime takes the outcome; nothing of the invocation remains.
Return ==
    /\ pc = "done"
    /\ pc' = "idle"
    /\ op' = ""
    /\ args' = EmptyObj
    /\ requests' = <<>>
    /\ query' = <<>>
    /\ sessions' = 0
    /\ reply' = NoReply
    /\ result' = PyNone
    /\ outcome' = NoOutcome
    /\ log' = <<>>
    /\ UNCHANGED <<calls, open>>

Next ==
    \/ add_product \/ update_product \/ update_inventory \/ search_products
    \/ list_products \/ get_product \/ delete_product \/ record_sale
    \/ get_sales_history \/ get_recent_sales \/ get_inventory_summary
    \/ view_analytics \/ get_profit_stats \/ get_monthly_profits
    \/ get_top_products \/ get_low_stock_alerts \/ get_sales_trends
    \/ Exchange \/ Cancel \/ Return

Spec == Init /\ [][Next]_vars

\* ------------------------------------------- call_inventory_api on its own
\* The helper called directly, with any method and with or without data.
DirectEndpoints == {"/api/products", "/api/sales?limit=5"}
DirectMethods == {"GET", "POST", "PUT", "DELETE", "PATCH"}
DirectData == {PyNone, PyDict([quantity |-> PyInt(2)])}

\* Entry of the call up to the suspension in session.<method>(...). With a
\* method that matches no branch the session is opened and closed at once
\* and the call returns None.
call_inventory_api ==
    /\ pc = "idle"
    /\ \E e \in DirectEndpoints, m \in DirectMethods, d \in DirectData :
        /\ op' = "call_inventory_api"
        /\ args' = [endpoint |-> PyStr(e), method |-> PyStr(m), data |-> d]
        /\ requests' = call_inventory_api_send(e, m, d)
        /\ IF call_inventory_api_send(e, m, d) = <<>>
           THEN pc' = "done" /\ sessions' = 0
           ELSE pc' = "awaiting" /\ sessions' = 1
    /\ UNCHANGED <<query, reply, result, outcome, log, calls, open>>

\* The exchange ends: the session closes and the call returns.
call_inventory_api_done ==
    /\ pc = "awaiting"
    /\ \E r \in Replies :
        /\ reply' = r
        /\ result' = call_inventory_api_return(r)
        /\ log' = log \o call_inventory_api_log(requests[1].endpoint, r)
    /\ sessions' = 0
    /\ pc' = "done"
    /\ UNCHANGED <<op, args, requests, query, outcome, calls, open>>

TransportNext == call_inventory_api \/ call_inventory_api_done \/ Return

Transport == Init /\ [][TransportNext]_vars

\* ------------------------------------------------ overlapping invocations
\* The runtime may start a tool call while another is suspended in its
\* exchange. Each invocation has its own locals; the module has no mutable
\* global but the logger.
Invocation(o, a, endpoint, method, data) ==
    [op |-> o, args |-> a, endpoint |-> endpoint, method |-> method, data |-> data]

ConcurrentInvocations ==
    {Invocation("record_sale", a, record_sale_endpoint(a), "POST", record_sale_data(a)) :
        a \in {record_sale_defaults}}
    \cup {Invocation("update_inventory", a, update_inventory_endpoint(a), "PUT",
                     update_inventory_data(a)) :
            a \in {[update_inventory_defaults EXCEPT !["quantity_change"] = PyInt(5)]}}
    \cup {Invocation("get_product", a, get_product_endpoint(a), "GET", PyNone) :
            a \in {get_product_defaults}}
    \cup {Invocation("delete_product", a, delete_product_endpoint(a), "DELETE", PyNone) :
            a \in {delete_product_defaults}}

ConcurrentReplies ==
    {FaultReply("timeout"),
     JsonReply(200, Envelope(PyBool(FALSE), PyStr("Product not found"), Absent, Absent)),
     JsonReply(200, Envelope(PyBool(TRUE), Absent, PyStr("Quantity is now 5"), Absent)),
     JsonReply(200, Envelope(PyBool(TRUE), Absent, Absent, FullItem))}

\* aiohttp.ClientSession(): a new object, distinct from every open one.
ClientSession == CHOOSE s \in 1..(MaxCalls + 1) : s \notin open

\* Variant: one module-level session, created on first use and shared.
Invoke_shared_session(c) ==
    /\ calls[c].pc = "idle"
    /\ \E inv \in ConcurrentInvocations :
        LET session == IF open # {} THEN CHOOSE s \in open : TRUE ELSE ClientSession
        IN  /\ calls' = [calls EXCEPT ![c] =
                          [IdleCall EXCEPT !.pc = "awaiting", !.op = inv.op,
                                           !.args = inv.args, !.session = session,
                                           !.requests = call_inventory_api_send(
                                               inv.endpoint, inv.method, inv.data)]]
            /\ open' = open \cup {session}
    /\ UNCHANGED <<pc, op, args, requests, query, sessions, reply, result, outcome, log>>

\* Invocation c runs up to its await: it opens its session and sends its
\* request.
Invoke(c) ==
    /\ calls[c].pc = "idle"
    /\ \E inv \in ConcurrentInvocations :
        LET session == ClientSession
        IN  /\ calls' = [calls EXCEPT ![c] =
                          [IdleCall EXCEPT !.pc = "awaiting", !.op = inv.op,
                                           !.args = inv.args, !.session = session,
                                           !.requests = call_inventory_api_send(
                                               inv.endpoint, inv.method, inv.data)]]
            /\ open' = open \cup {session}
    /\ UNCHANGED <<pc, op, args, requests, query, sessions, reply, result, outcome, log>>

\* Variant: the decoded result is kept in a module-level variable that the
\* operations read after the await.
Complete_shared_result(c) ==
    /\ calls[c].pc = "awaiting"
    /\ \E r \in ConcurrentReplies :
        LET others == {d \in Calls \ {c} : calls[d].pc = "done"}
            res == IF others # {} THEN calls[CHOOSE d \in others : TRUE].result
                   ELSE call_inventory_api_return(r)
        IN  calls' = [calls EXCEPT ![c].pc = "done", ![c].reply = r, ![c].result = res,
                                   ![c].outcome = Finish(calls[c].op, calls[c].args, res)]
    /\ open' = open \ {calls[c].session}
    /\ UNCHANGED <<pc, op, args, requests, query, sessions, reply, result, outcome, log>>

\* The exchange of invocation c ends: its session closes, the helper returns
\* and the operation runs to its return or raise.
Complete(c) ==
    /\ calls[c].pc = "awaiting"
    /\ \E r \in ConcurrentReplies :
        LET res == call_inventory_api_return(r)
        IN  calls' = [calls EXCEPT ![c].pc = "done", ![c].reply = r, ![c].result = res,
                                   ![c].outcome = Finish(calls[c].op, calls[c].args, res)]
    /\ open' = open \ {calls[c].session}
    /\ UNCHANGED <<pc, op, args, requests, query, sessions, reply, result, outcome, log>>

\* The runtime takes the outcome of invocation c; its locals are gone.
Collect(c) ==
    /\ calls[c].pc = "done"
    /\ calls' = [calls EXCEPT ![c] = IdleCall]
    /\ UNCHANGED <<pc, op, args, requests, query, sessions, reply, result, outcome, log,
                   open>>

ConcurrentNext == \E c \in Calls : Invoke(c) \/ Complete(c) \/ Collect(c)

Concurrent == Init /\ [][ConcurrentNext]_vars

\* ================================================================= tables
Operations ==
    {"add_product", "update_product", "update_inventory", "search_products",
     "list_products", "get_product", "delete_product", "record_sale",
     "get_sales_history", "get_recent_sales", "get_inventory_summary",
     "view_analytics", "get_profit_stats", "get_monthly_profits",
     "get_top_products", "get_low_stock_alerts", "get_sales_trends"}

\* The text each operation puts before the error in its ToolError.
FixedPrefix(o) ==
    CASE o = "add_product" -> "Failed to add product: "
      [] o = "update_product" -> "Failed to update product: "
      [] o = "update_inventory" -> "Failed to update inventory: "
      [] o = "search_products" -> "Search failed: "
      [] o = "list_products" -> "Failed to list products: "
      [] o = "get_product" -> "Product not found: "
      [] o = "delete_product" -> "Failed to delete product: "
      [] o = "record_sale" -> "Failed to record sale: "
      [] o = "get_sales_history" -> "Failed to get sales history: "
      [] o = "get_recent_sales" -> "Failed to get sales: "
      [] o = "get_inventory_summary" -> "Failed to get summary: "
      [] o = "view_analytics" -> "Failed to get analytics: "
      [] o = "get_profit_stats" -> "Failed to get profit stats: "
      [] o = "get_monthly_profits" -> "Failed to get monthly profits: "
      [] o = "get_top_products" -> "Failed to get top products: "
      [] o = "get_low_stock_alerts" -> "Failed to get alerts: "
      [] o = "get_sales_trends" -> "Failed to get trends: "

\* The parameters that have a default in the signature, each with the field
\* of the body or of the query string that carries it.
OptionalParams(o) ==
    CASE o = "add_product" ->
            {<<"sku", "sku">>, <<"cost", "cost">>, <<"cost_breakdown", "costBreakdown">>,
             <<"description", "description">>, <<"caption", "caption">>}
      [] o = "update_product" ->
            {<<"name", "name">>, <<"sku", "sku">>, <<"type", "type">>,
             <<"quantity", "quantity">>, <<"price", "price">>, <<"cost", "cost">>,
             <<"cost_breakdown", "costBreakdown">>, <<"description", "description">>,
             <<"caption", "caption">>}
      [] o = "update_inventory" ->
            {<<"quantity_change", "quantity_change">>, <<"new_quantity", "new_quantity">>}
      [] o = "search_products" ->
            {<<"search_term", "search">>, <<"type", "type">>, <<"low_stock", "lowStock">>}
      [] o = "list_products" -> {<<"type", "type">>, <<"low_stock", "lowStock">>}
      [] o = "record_sale" -> {<<"sell_price", "sellPrice">>}
      [] o = "get_sales_history" ->
            {<<"product_name", "product">>, <<"start_date", "startDate">>,
             <<"end_date", "endDate">>, <<"limit", "limit">>}
      [] o = "get_recent_sales" -> {<<"limit", "limit">>}
      [] o = "get_profit_stats" -> {<<"period", "period">>}
      [] o = "get_monthly_profits" -> {<<"months", "months">>}
      [] o = "get_top_products" ->
            {<<"period", "period">>, <<"sort_by", "sortBy">>, <<"limit", "limit">>}
      [] o = "get_low_stock_alerts" -> {<<"threshold", "threshold">>}
      [] o = "get_sales_trends" -> {<<"period", "period">>}
      [] OTHER -> {}

\* The argument values a call with only the required arguments runs with.
Defaults(o) ==
    CASE o = "add_product" -> add_product_defaults
      [] o = "update_product" -> update_product_defaults
      [] o = "update_inventory" -> update_inventory_defaults
      [] o = "search_products" -> search_products_defaults
      [] o = "list_products" -> list_products_defaults
      [] o = "get_product" -> get_product_defaults
      [] o = "delete_product" -> delete_product_defaults
      [] o = "record_sale" -> record_sale_defaults
      [] o = "get_sales_history" -> get_sales_history_defaults
      [] o = "get_recent_sales" -> get_recent_sales_defaults
      [] o = "get_inventory_summary" -> get_inventory_summary_defaults
      [] o = "view_analytics" -> view_analytics_defaults
      [] o = "get_profit_stats" -> get_profit_stats_defaults
      [] o = "get_monthly_profits" -> get_monthly_profits_defaults
      [] o = "get_top_products" -> get_top_products_defaults
      [] o = "get_low_stock_alerts" -> get_low_stock_alerts_defaults
      [] o = "get_sales_trends" -> get_sales_trends_defaults

\* The operations that render a collection, and what each says of an empty one.
CollectionOps ==
    {"search_products", "list_products", "get_sales_history", "get_recent_sales",
     "get_monthly_profits", "get_top_products", "get_low_stock_alerts"}

NoneFound(o, a) ==
    CASE o = "search_products" -> "No products found matching your search."
      [] o = "list_products" -> "No products found."
      [] o = "get_sales_history" -> "No sales found for the specified criteria."
      [] o = "get_recent_sales" -> "No sales recorded yet."
      [] o = "get_monthly_profits" -> "No profit data available."
      [] o = "get_top_products" -> "No sales data available for " \o a.period.s \o "."
      [] o = "get_low_stock_alerts" ->
            "No low stock alerts. All products are well stocked."

\* ================================================================= claims
Body == requests[1].body
Issued == pc \in {"awaiting", "done"}
IsEnvelope == reply.k = "json" /\ reply.body.t = "obj"
SuccessEnvelope ==
    /\ IsEnvelope
    /\ "success" \in DOMAIN reply.body.o
    /\ reply.body.o["success"] = PyBool(TRUE)
CostBreakdownOps == {"add_product", "update_product"}
BodyOps == {"add_product", "update_product", "update_inventory", "record_sale"}

\* C1: when the exchange ends in a transport-level fault (connection failure,
\* timeout, non-JSON body), call_inventory_api returns the dict
\* {success: False, error: <message>} and the operation raises ToolError,
\* never another exception type.
C1_FaultYieldsToolError ==
    (pc = "done" /\ reply.k = "fault") =>
        /\ result.t = "obj"
        /\ DOMAIN result.o = {"success", "error"}
        /\ result.o["success"] = PyBool(FALSE)
        /\ result.o["error"].t = "str"
        /\ outcome.kind = "raise"
        /\ outcome.exc = "ToolError"

C1_Witness ==
    /\ pc = "done"
    /\ op = "record_sale"
    /\ reply.k = "fault"
    /\ reply.why = "timeout"
    /\ outcome.exc = "ToolError"

\* C2: for an envelope whose success field is false or absent the operation
\* raises ToolError, and the message is the operation's fixed prefix followed
\* by the error field verbatim when present, by "Unknown error" when absent.
C2_FailureEnvelopeMessage ==
    (/\ pc = "done"
     /\ IsEnvelope
     /\ ("success" \notin DOMAIN reply.body.o
         \/ reply.body.o["success"] = PyBool(FALSE))) =>
        /\ outcome.kind = "raise"
        /\ outcome.exc = "ToolError"
        /\ Text(outcome) =
             FixedPrefix(op) \o (IF "error" \in DOMAIN reply.body.o
                                 THEN reply.body.o["error"].s
                                 ELSE "Unknown error")

C2_Witness ==
    /\ pc = "done"
    /\ op = "get_product"
    /\ reply.k = "json"
    /\ reply.body = Envelope(PyBool(FALSE), PyStr("Product not found"), Absent, Absent)
    /\ Text(outcome) = "Product not found: Product not found"

\* C3: when the decoded body is valid JSON but not an object (a list, a
\* string, a number, null), the operation raises ToolError and no other
\* exception.
C3_NonObjectBodyYieldsToolError ==
    (pc = "done" /\ reply.k = "json" /\ reply.body.t # "obj") =>
        (outcome.kind = "raise" /\ outcome.exc = "ToolError")

\* C4: every invocation ends with a returned string or a raised ToolError,
\* and an envelope with success true always yields a returned string,
\* whatever its data field holds.
C4_SuccessEnvelopeReturnsString ==
    /\ pc = "done" => (outcome.kind = "return" \/ outcome.exc = "ToolError")
    /\ (pc = "done" /\ SuccessEnvelope) => outcome.kind = "return"

\* C5: every invocation issues exactly one HTTP request on every path: none
\* is added after a transport fault, a remote-reported failure or a
\* cost-breakdown parse failure, and no invocation ends with none issued.
C5_ExactlyOneRequest ==
    /\ pc = "idle" => requests = <<>>
    /\ Issued => (op \in Operations /\ Len(requests) = 1)

C5_Witness ==
    /\ pc = "done"
    /\ op = "add_product"
    /\ reply.k = "fault"
    /\ log # <<>>
    /\ log[1].level = "warning"
    /\ Len(requests) = 1

\* The fields the outgoing request carries, in its JSON body and its query
\* string, and those of them that are null.
RequestFields ==
    (IF requests[1].hasBody THEN DOMAIN Body.o ELSE {})
    \cup {query[i][1] : i \in 1..Len(query)}
NullFields ==
    (IF requests[1].hasBody THEN {k \in DOMAIN Body.o : Body.o[k] = PyNone} ELSE {})
    \cup {query[i][1] : i \in {j \in 1..Len(query) : query[j][2] = "None"}}
OptionalFields(o) == {pf[2] : pf \in OptionalParams(o)}
\* Optional parameters whose default is a value, not None or False.
DefaultedParams(o) ==
    {pf \in OptionalParams(o) : Truthy(Defaults(o)[pf[1]])}
OnlyRequiredSupplied ==
    /\ Issued
    /\ \A pf \in OptionalParams(op) : args[pf[1]] = Defaults(op)[pf[1]]

\* C6 as stated: with only the required arguments supplied, the outgoing
\* request contains no optional field at all and no null field.
C6_NoOptionalFieldAtAll ==
    OnlyRequiredSupplied =>
        /\ RequestFields \cap OptionalFields(op) = {}
        /\ NullFields = {}

\* C6 as amended: with only the required arguments supplied, the request
\* contains no null field and no field of an optional parameter whose default
\* is None or False; an optional parameter with a default value (limit,
\* months, period, sort_by, threshold) is sent in the query string with that
\* default.
C6_OnlyDefaultedOptionalFields ==
    OnlyRequiredSupplied =>
        /\ RequestFields \cap OptionalFields(op) = {pf[2] : pf \in DefaultedParams(op)}
        /\ \A pf \in DefaultedParams(op) :
              \E i \in 1..Len(query) :
                  query[i] = <<pf[2], Str(Defaults(op)[pf[1]])>>
        /\ NullFields = {}

C6_Witness ==
    /\ OnlyRequiredSupplied
    /\ op = "get_sales_history"
    /\ query = << <<"limit", "10">> >>
    /\ requests[1].endpoint = "/api/sales?limit=10"

\* Optional parameters that go into the body as they are.
PlainOptionalParams(o) == {pf \in OptionalParams(o) : pf[1] # "cost_breakdown"}

\* C7 as stated: an optional parameter is left out of the body exactly when
\* it is None; any other value, 0, 0.0 and "" included, goes out as supplied.
C7_OmittedExactlyWhenNone ==
    (Issued /\ op \in BodyOps) =>
        \A pf \in PlainOptionalParams(op) :
            /\ (pf[2] \notin DOMAIN Body.o) <=> (args[pf[1]] = PyNone)
            /\ (pf[2] \in DOMAIN Body.o) => Body.o[pf[2]] = args[pf[1]]

\* C7 as amended: an optional parameter is left out of the body exactly when
\* it is None or, for the text parameters, the empty string; every numeric
\* value, 0 and 0.0 included, and every non-empty text goes out as supplied.
C7_OmittedWhenNoneOrEmptyText ==
    (Issued /\ op \in BodyOps) =>
        \A pf \in PlainOptionalParams(op) :
            /\ (pf[2] \notin DOMAIN Body.o)
                   <=> (args[pf[1]] = PyNone \/ args[pf[1]] = PyStr(""))
            /\ (pf[2] \in DOMAIN Body.o) => Body.o[pf[2]] = args[pf[1]]

C7_Witness ==
    /\ Issued
    /\ op = "add_product"
    /\ args["cost"] = PyFloat(0)
    /\ "cost" \in DOMAIN Body.o
    /\ Body.o["cost"] = PyFloat(0)

\* C8: a cost_breakdown text that is a well-formed JSON list of
\* {category, amount} entries goes out as costBreakdown with the same entries
\* and amounts in the same order, and cost goes out as given, not recomputed.
C8_BreakdownForwardedInOrder ==
    (Issued /\ op \in CostBreakdownOps) =>
        \A es \in EntryLists :
            args["cost_breakdown"] = PyText(EncodeList(es)) =>
                /\ "costBreakdown" \in DOMAIN Body.o
                /\ Body.o["costBreakdown"] = PyList([i \in 1..Len(es) |-> EntryValue(es[i])])
                /\ ("cost" \in DOMAIN Body.o) <=> (args["cost"] # PyNone)
                /\ ("cost" \in DOMAIN Body.o) => Body.o["cost"] = args["cost"]

C8_Witness ==
    /\ Issued
    /\ op = "update_product"
    /\ args["cost_breakdown"] = PyText(EncodeList(<<EntryEmbroidery, EntryMaterial>>))
    /\ Body.o["costBreakdown"].l[1].o["amount"] = PyInt(10)
    /\ Body.o["costBreakdown"].l[2].o["amount"] = PyInt(20)

NotJson(text) == text.t = "text" /\ json_loads(text).exc # ""

\* C9: with a cost_breakdown text that is not valid JSON the operation goes
\* on: the request is issued with every other supplied field and without
\* costBreakdown, and on an envelope with success true the operation returns
\* its success string.
C9_BadBreakdownStillSucceeds ==
    (Issued /\ op \in CostBreakdownOps /\ NotJson(args["cost_breakdown"])) =>
        /\ Len(requests) = 1
        /\ "costBreakdown" \notin DOMAIN Body.o
        /\ \A pf \in PlainOptionalParams(op) :
              Truthy(args[pf[1]]) => Body.o[pf[2]] = args[pf[1]]
        /\ (pc = "done" /\ SuccessEnvelope) =>
              (outcome.kind = "return" /\ outcome.parts[1] \in
                   {"Successfully added ", "Successfully updated "})

\* C10: on a success envelope whose data has zero items, an operation that
\* renders a collection returns its fixed "none found" sentence (for
\* search_products, "No products found matching your search."), never a
\* list header.
C10_EmptyCollectionSentence ==
    (/\ pc = "done"
     /\ op \in CollectionOps
     /\ SuccessEnvelope
     /\ "data" \in DOMAIN reply.body.o
     /\ reply.body.o["data"] \in {PyList(<<>>), PyDict(EmptyObj)}) =>
        /\ outcome.kind = "return"
        /\ Text(outcome) = NoneFound(op, args)

C10_Witness ==
    /\ pc = "done"
    /\ op = "search_products"
    /\ args["search_term"] = PyStr("cc-002")
    /\ reply.body = Envelope(PyBool(TRUE), Absent, Absent, PyList(<<>>))
    /\ Text(outcome) = "No products found matching your search."

\* C11: on a success envelope with N well-formed items, every operation that
\* renders a collection enumerates the first min(N, 5) items in order; with
\* N > 5 the string ends with the remainder count N - 5, with N <= 5 it has
\* no remainder suffix.
Enumerated ==
    SelectSeq(outcome.parts, LAMBDA p : p \in {ItemLabel(i) : i \in 1..8})
Preview(n) == IF n > 5 THEN 5 ELSE n
EndsWithRemainder(n) ==
    \E i \in 1..Len(outcome.parts) :
        /\ i + 2 = Len(outcome.parts)
        /\ outcome.parts[i] = "... and "
        /\ outcome.parts[i + 1] = ToString(n)
NumberedData ==
    /\ SuccessEnvelope
    /\ "data" \in DOMAIN reply.body.o
    /\ reply.body.o["data"] \in {PyList(l) : l \in NumberedLists}

C11_PreviewOfFiveAndRemainder ==
    (pc = "done" /\ op \in CollectionOps /\ NumberedData) =>
        LET N == Len(reply.body.o["data"].l)
        IN  /\ outcome.kind = "return"
            /\ Enumerated = [i \in 1..Preview(N) |-> ItemLabel(i)]
            /\ IF N > 5 THEN EndsWithRemainder(N - 5)
               ELSE \A i \in 1..Len(outcome.parts) : outcome.parts[i] # "... and "

\* C12: search_products and list_products both issue GET on /api/products,
\* and the query depends on the arguments alone: one key=value pair per
\* supplied filter (search, type, lowStock) joined by '&', lowStock only as
\* lowStock=true and only when the flag is set, no type filter for
\* list_products with type 'all', and no '?' when there is no filter. A text
\* filter counts as supplied when it is a non-empty string.
Supplied(v) == v # PyNone /\ v # PyStr("")
ExpectedFilters ==
    (IF op = "search_products" /\ Supplied(args.search_term)
     THEN <<"search=" \o args.search_term.s>> ELSE <<>>)
    \o (IF Supplied(args.type) /\ ~(op = "list_products" /\ args.type = PyStr("all"))
        THEN <<"type=" \o args.type.s>> ELSE <<>>)
    \o (IF args.low_stock = PyBool(TRUE) THEN <<"lowStock=true">> ELSE <<>>)

C12_ProductsQueryFromArguments ==
    (Issued /\ op \in {"search_products", "list_products"}) =>
        /\ Len(requests) = 1
        /\ requests[1].method = "GET"
        /\ requests[1].endpoint =
              IF ExpectedFilters = <<>> THEN "/api/products"
              ELSE "/api/products?" \o Join(ExpectedFilters, "&")

C12_Witness ==
    /\ pc = "awaiting"
    /\ op = "search_products"
    /\ args.low_stock = PyBool(TRUE)
    /\ requests[1].endpoint = "/api/products?search=cc-002&type=towels&lowStock=true"

\* C13: update_inventory forwards every quantity it is given in the one PUT
\* body to /api/products/quantity/{name}: both quantity_change and
\* new_quantity when both are given, and a value of 0 like any other.
C13_BothQuantitiesForwarded ==
    (Issued /\ op = "update_inventory") =>
        /\ Len(requests) = 1
        /\ requests[1].method = "PUT"
        /\ requests[1].endpoint = "/api/products/quantity/" \o args.product_name.s
        /\ requests[1].hasBody
        /\ \A f \in {"quantity_change", "new_quantity"} :
              args[f] # PyNone => (f \in DOMAIN Body.o /\ Body.o[f] = args[f])

C13_Witness ==
    /\ pc = "awaiting"
    /\ op = "update_inventory"
    /\ args.quantity_change = PyInt(0)
    /\ args.new_quantity = PyInt(40)
    /\ Body.o["quantity_change"] = PyInt(0)
    /\ Body.o["new_quantity"] = PyInt(40)

\* C14: update_product, get_product and delete_product put the caller's
\* product_identifier unchanged in the path /api/products/{identifier},
\* whether it is a name, a SKU or an ID, and make no other request.
IdentifierOps == {"update_product", "get_product", "delete_product"}

C14_IdentifierForwardedUnchanged ==
    (Issued /\ op \in IdentifierOps) =>
        /\ Len(requests) = 1
        /\ requests[1].endpoint = "/api/products/" \o args.product_identifier.s
        /\ requests[1].url = API_BASE_URL \o "/api/products/" \o args.product_identifier.s

C14_Witness ==
    /\ pc = "done"
    /\ op = "get_product"
    /\ args.product_identifier = PyStr("Blue Towel")
    /\ requests[1].endpoint = "/api/products/Blue Towel"

\* C15: call_inventory_api sends the request to base URL + endpoint with the
\* given method; when a data argument is passed it goes out as the body for
\* POST and PUT and for no other method, and GET and DELETE send no body
\* with or without a data argument.
DirectCall == Issued /\ op = "call_inventory_api"

C15_BodyOnlyForPostAndPut ==
    (DirectCall /\ args.method.s \in {"GET", "POST", "PUT", "DELETE"}) =>
        /\ Len(requests) = 1
        /\ requests[1].url = API_BASE_URL \o args.endpoint.s
        /\ requests[1].method = args.method.s
        /\ args.method.s \in {"GET", "DELETE"} =>
              (~requests[1].hasBody /\ requests[1].body = PyNone)
        /\ (args.method.s \in {"POST", "PUT"} /\ args.data # PyNone) =>
              (requests[1].hasBody /\ requests[1].body = args.data)

C15_Witness ==
    /\ pc = "awaiting"
    /\ op = "call_inventory_api"
    /\ args.method = PyStr("DELETE")
    /\ args.data = PyDict([quantity |-> PyInt(2)])
    /\ ~requests[1].hasBody

\* C16: when the exchange completes with a JSON body, call_inventory_api
\* returns that body unchanged whatever the HTTP status, and whether the
\* operation fails with ToolError is decided by the envelope's success field
\* alone.
C16_StatusCodeIgnored ==
    (pc = "done" /\ reply.k = "json") =>
        /\ result = reply.body
        /\ IsEnvelope =>
              (outcome.exc = "ToolError"
                  <=> ~Truthy(dict_get(reply.body, "success", PyNone).v))

C16_Witness ==
    /\ pc = "done"
    /\ op = "get_product"
    /\ reply.k = "json"
    /\ reply.status = 404
    /\ SuccessEnvelope
    /\ outcome.kind = "return"

\* C17: in every interleaving of overlapping invocations, each invocation's
\* request is a function of its own operation and arguments and its outcome
\* a function of these and of its own response; two invocations with the
\* same inputs agree, and a step of one invocation leaves the locals of
\* every other invocation as they were.
Started(c) == calls[c].pc \in {"awaiting", "done"}
OwnRequest(c) ==
    \E inv \in ConcurrentInvocations :
        /\ inv.op = calls[c].op
        /\ inv.args = calls[c].args
        /\ calls[c].requests = call_inventory_api_send(inv.endpoint, inv.method, inv.data)
OwnOutcome(c) ==
    calls[c].outcome =
        Finish(calls[c].op, calls[c].args, call_inventory_api_return(calls[c].reply))
SameInputs(c, d) == calls[c].op = calls[d].op /\ calls[c].args = calls[d].args
OwnInputsOnly ==
    \A c \in Calls :
        /\ Started(c) => OwnRequest(c)
        /\ calls[c].pc = "done" => OwnOutcome(c)
        /\ \A d \in Calls :
            /\ (Started(c) /\ Started(d) /\ SameInputs(c, d)) =>
                  calls[c].requests = calls[d].requests
            /\ (calls[c].pc = "done" /\ calls[d].pc = "done" /\ SameInputs(c, d)
                    /\ calls[c].reply = calls[d].reply) =>
                  calls[c].outcome = calls[d].outcome
OthersUntouched ==
    \A c \in Calls :
        calls'[c] # calls[c] => \A d \in Calls \ {c} : calls'[d] = calls[d]

C17_InvocationsIndependent == []OwnInputsOnly /\ [][OthersUntouched]_vars

C17_Witness ==
    /\ calls[1].pc = "done"
    /\ calls[2].pc = "done"
    /\ calls[1].op = "record_sale"
    /\ calls[2].op = "record_sale"
    /\ calls[1].reply = FaultReply("timeout")
    /\ calls[2].reply = JsonReply(200, Envelope(PyBool(TRUE), Absent, Absent, FullItem))
    /\ calls[1].outcome.exc = "ToolError"
    /\ calls[2].outcome.kind = "return"

\* C18: each call opens one session of its own and closes it before it
\* returns, on a decoded response and on a fault alike: the open sessions
\* are as many as the calls whose exchange is outstanding, each such call
\* holds an open session that no other call holds, and with no call in
\* flight no session is open.
Outstanding == {c \in Calls : calls[c].pc = "awaiting"}

C18_OneSessionPerOutstandingCall ==
    /\ Cardinality(open) = Cardinality(Outstanding)
    /\ \A c \in Outstanding :
        /\ calls[c].session \in open
        /\ \A d \in Outstanding \ {c} : calls[d].session # calls[c].session
    /\ Outstanding = {} => open = {}

C18_Witness ==
    /\ calls[1].pc = "done"
    /\ calls[1].reply.k = "fault"
    /\ calls[2].pc = "awaiting"
    /\ open = {calls[2].session}

\* C19: every currency value in a returned string has exactly two decimal
\* places: the text that follows a '$' is of the form d+.dd, for the price
\* and cost shown by add_product, update_product, search_products,
\* list_products and get_product as for the sale and analytics amounts.
CurrencyLeads ==
    {"$", ": $", " units, $", ") to inventory at $", ", Cost: $", ", Price: $",
     ", Profit: $", "Average profit per sale: $", "Cost: $", "Profit: $", "Revenue: $",
     "Total profit: $", "Total value: $", "Total: $", "cost ($", "price ($"}
\* The amounts that occur in arguments and responses, in thousandths.
KnownAmounts ==
    {0, 9000, 10000, 15500, 20000, 35000, 40000, 45000, 49500, 59990, 100000, 163000,
     1234500, 6840200, 8580300, 15420500}
TwoDecimalTexts ==
    {ToString(m \div 1000) \o "." \o Digits2((m % 1000) \div 10) : m \in KnownAmounts}

C19_CurrencyTwoDecimals ==
    (pc = "done" /\ op \in Operations /\ outcome.kind = "return") =>
        \A i \in 1..(Len(outcome.parts) - 1) :
            (outcome.parts[i] \in CurrencyLeads /\ outcome.parts[i + 1] # "None") =>
                outcome.parts[i + 1] \in TwoDecimalTexts

\* C20: on a success envelope, no consumed field that is absent or null
\* shows as the text 'None' or 'null' in the returned string.
C20_NoNoneInText ==
    (pc = "done" /\ op \in Operations /\ SuccessEnvelope /\ outcome.kind = "return") =>
        \A i \in 1..Len(outcome.parts) : outcome.parts[i] \notin {"None", "null"}

\* C21: on a success envelope whose data holds each consumed amount as a
\* number or not at all, record_sale, get_profit_stats and view_analytics
\* return a string that names the caller's arguments and shows each amount,
\* money at two decimals and the margin at one, an absent amount as zero;
\* totalSaleValue 100.00 and profit 40.00 give 'Total: $100.00, Profit:
\* $40.00', and averageProfit 163.0 gives '$163.00'.
AmountOps == {"record_sale", "get_profit_stats", "view_analytics"}
ReplyData ==
    IF IsEnvelope /\ "data" \in DOMAIN reply.body.o THEN reply.body.o["data"]
    ELSE PyDict(EmptyObj)
IsNumber(v) == v.t \in {"int", "float"}
AmountsWellFormed ==
    /\ SuccessEnvelope
    /\ ReplyData.t = "obj"
    /\ \A k \in {"totalSaleValue", "profit", "totalProfit", "totalRevenue", "totalCost",
                  "averageProfit", "salesCount", "profitMargin"} :
          k \in DOMAIN ReplyData.o => IsNumber(ReplyData.o[k])
\* The amount under key k in thousandths, zero when the key is absent.
Amount(k) ==
    IF k \notin DOMAIN ReplyData.o THEN 0
    ELSE IF ReplyData.o[k].t = "int" THEN ReplyData.o[k].i * 1000
    ELSE ReplyData.o[k].m
Money(k) ==
    LET cents == (Amount(k) + 5) \div 10
    IN  ToString(cents \div 100) \o "." \o
        (IF cents % 100 < 10 THEN "0" ELSE "") \o ToString(cents % 100)
OneDecimal(k) ==
    LET tenths == (Amount(k) + 50) \div 100
    IN  ToString(tenths \div 10) \o "." \o ToString(tenths % 10)
Count(k) ==
    IF k \notin DOMAIN ReplyData.o THEN "0"
    ELSE IF ReplyData.o[k].t = "int" THEN ToString(ReplyData.o[k].i)
    ELSE FloatRepr(ReplyData.o[k].m)
ExpectedAmountsText ==
    CASE op = "record_sale" ->
            "Sale recorded! Sold " \o ToString(args.quantity.i) \o " units of "
            \o args.product_name.s \o ". Total: $" \o Money("totalSaleValue")
            \o ", Profit: $" \o Money("profit")
      [] op = "get_profit_stats" ->
            "Profit stats for " \o args.period.s \o ": Total profit: $"
            \o Money("totalProfit") \o ", Revenue: $" \o Money("totalRevenue")
            \o ", Cost: $" \o Money("totalCost") \o ", Average profit per sale: $"
            \o Money("averageProfit")
      [] op = "view_analytics" ->
            "Analytics for " \o args.period.s \o ": Revenue: $" \o Money("totalRevenue")
            \o ", Profit: $" \o Money("totalProfit") \o ", Sales: " \o Count("salesCount")
            \o ", Profit margin: " \o OneDecimal("profitMargin") \o "%"

C21_AmountsRendered ==
    (pc = "done" /\ op \in AmountOps /\ AmountsWellFormed) =>
        /\ outcome.kind = "return"
        /\ Text(outcome) = ExpectedAmountsText
        /\ (op = "get_profit_stats" /\ ReplyData = FullItem /\ args.period = PyStr("month")) =>
              Text(outcome) = "Profit stats for month: Total profit: $6840.20, "
                              \o "Revenue: $15420.50, Cost: $8580.30, "
                              \o "Average profit per sale: $163.00"
        /\ (op = "view_analytics" /\ ReplyData = PyDict(EmptyObj)
                /\ args.period = PyStr("month")) =>
              Text(outcome) = "Analytics for month: Revenue: $0.00, Profit: $0.00, "
                              \o "Sales: 0, Profit margin: 0.0%"

C21_Witness ==
    /\ pc = "done"
    /\ op = "record_sale"
    /\ args.product_name = PyStr("BC-001")
    /\ args.quantity = PyInt(2)
    /\ SuccessEnvelope
    /\ ReplyData = FullItem
    /\ Text(outcome) = "Sale recorded! Sold 2 units of BC-001. Total: $100.00, Profit: $40.00"

\* C22: in get_sales_history and get_recent_sales a sale whose productId is
\* absent, is no object (a string, a number, null) or is an object without
\* a name is shown with the product name 'Unknown', and the other sales of
\* the response are rendered as usual; the render does not fail.
SalesOps == {"get_sales_history", "get_recent_sales"}
ProductNamesShown ==
    SelectSeq(outcome.parts, LAMBDA p : p \in {"Unknown"} \cup {ItemLabel(i) : i \in 1..8})

C22_UnknownProductName ==
    (/\ pc = "done"
     /\ op \in SalesOps
     /\ SuccessEnvelope
     /\ ReplyData \in {PyList(l) : l \in OddProductLists}) =>
        /\ outcome.kind = "return"
        /\ ProductNamesShown = <<ItemLabel(1), "Unknown", ItemLabel(3)>>

C22_Witness ==
    /\ pc = "done"
    /\ op = "get_recent_sales"
    /\ SuccessEnvelope
    /\ ReplyData = PyList(<<NumberedItem(1),
                            PyDict([FullItem.o EXCEPT !.productId = PyStr("64f1c0ffee")]),
                            NumberedItem(3)>>)
    /\ Text(outcome) = "Recent 3 sale(s):\n- item1 (12 units, $100.00)\n"
                       \o "- Unknown (12 units, $100.00)\n- item3 (12 units, $100.00)\n"

\* C23 (as claimed): an invocation cancelled while its exchange is
\* outstanding ends without a success string, issues no further request,
\* leaves no session open, and takes the fault path of any other failure of
\* the exchange: the helper returns {success: False, error}, the failure is
\* logged and the operation raises ToolError.
Cancelled == pc = "done" /\ reply.k = "cancelled"
ErrorLogged == \E i \in 1..Len(log) : log[i].level = "error"

C23_CancellationOnFaultPath ==
    Cancelled =>
        /\ outcome.kind # "return"
        /\ Len(requests) = 1
        /\ sessions = 0
        /\ result.t = "obj"
        /\ outcome.exc = "ToolError"
        /\ ErrorLogged

\* C23 (amended): an invocation cancelled while its exchange is outstanding
\* ends without a success string, issues no further request and leaves no
\* session open; the cancellation passes through the helper and the
\* operation as CancelledError, with no failure result, no log record and no
\* ToolError.
C23_CancellationPropagates ==
    Cancelled =>
        /\ outcome.kind = "raise"
        /\ outcome.exc = "CancelledError"
        /\ Len(requests) = 1
        /\ sessions = 0
        /\ result = PyNone
        /\ ~ErrorLogged

C23_Witness ==
    /\ Cancelled
    /\ op = "record_sale"
    /\ requests[1].method = "POST"
    /\ outcome.exc = "CancelledError"
    /\ sessions = 0

\* C24: view_analytics, get_profit_stats, get_top_products and
\* get_sales_trends put the period argument unchanged in the query string
\* for every string, documented or not: none is rejected, replaced or
\* defaulted before the request, and the request is always issued.
PeriodOps == {"view_analytics", "get_profit_stats", "get_top_products", "get_sales_trends"}
DocumentedPeriods ==
    {PyStr("today"), PyStr("week"), PyStr("month"), PyStr("2months"),
     PyStr("year"), PyStr("all")}
PeriodPath ==
    CASE op \in {"view_analytics", "get_profit_stats"} -> "/api/analytics/profit"
      [] op = "get_top_products" -> "/api/analytics/top-products"
      [] op = "get_sales_trends" -> "/api/analytics/trends"
      [] OTHER -> ""
AfterPeriod ==
    IF op = "get_top_products"
    THEN "&sortBy=" \o args.sort_by.s \o "&limit=" \o ToString(args.limit.i)
    ELSE ""

C24_PeriodForwardedUnchanged ==
    (op \in PeriodOps /\ pc # "idle") =>
        /\ Len(requests) = 1
        /\ requests[1].method = "GET"
        /\ requests[1].endpoint =
               PeriodPath \o "?period=" \o args.period.s \o AfterPeriod
        /\ query[1] = <<"period", args.period.s>>

C24_Witness ==
    /\ pc = "done"
    /\ op = "view_analytics"
    /\ args.period = PyStr("decade")
    /\ args.period \notin DocumentedPeriods
    /\ requests[1].endpoint = "/api/analytics/profit?period=decade"
    /\ outcome.kind = "return"

\* C25: in add_product and update_product the body has costBreakdown exactly
\* when cost_breakdown is a non-empty text that parses as JSON, and its value
\* is the parsed value whatever its shape: the text null goes out as
\* costBreakdown: null and a lone object as that object.
ParsesAsJson(text) == text.t = "text" /\ json_loads(text).exc = ""

C25_ParsedValueForwardedUnchecked ==
    (Issued /\ op \in CostBreakdownOps) =>
        /\ ("costBreakdown" \in DOMAIN Body.o) <=>
               (/\ args["cost_breakdown"] # PyNone
                /\ args["cost_breakdown"] # PyText(<<>>)
                /\ ParsesAsJson(args["cost_breakdown"]))
        /\ ("costBreakdown" \in DOMAIN Body.o) =>
               Body.o["costBreakdown"] = json_loads(args["cost_breakdown"]).v
        /\ args["cost_breakdown"] = PyText(<<"null">>) =>
               ("costBreakdown" \in DOMAIN Body.o /\ Body.o["costBreakdown"] = PyNone)
        /\ \A e \in {EntryMaterial, EntryEmbroidery} :
               args["cost_breakdown"] = PyText(<<e>>) =>
                   ("costBreakdown" \in DOMAIN Body.o
                    /\ Body.o["costBreakdown"] = EntryValue(e))

C25_Witness ==
    /\ Issued
    /\ op = "add_product"
    /\ args["cost_breakdown"] = PyText(<<"null">>)
    /\ "costBreakdown" \in DOMAIN Body.o
    /\ Body.o["costBreakdown"] = PyNone

\* C26: update_product called with only product_identifier, and
\* update_inventory called with neither quantity_change nor new_quantity,
\* are not rejected before the request: each issues its one PUT with a body
\* holding only the identifier, and on a success envelope update_product
\* returns "Successfully updated product details for '<identifier>'.".
NothingToUpdate ==
    \/ /\ op = "update_product"
       /\ \A f \in DOMAIN args : f # "product_identifier" => args[f] = PyNone
    \/ /\ op = "update_inventory"
       /\ args.quantity_change = PyNone
       /\ args.new_quantity = PyNone
IdentifierField == IF op = "update_product" THEN "product_identifier" ELSE "product_name"

C26_EmptyUpdateStillIssued ==
    (Issued /\ NothingToUpdate) =>
        /\ Len(requests) = 1
        /\ requests[1].method = "PUT"
        /\ Body.t = "obj"
        /\ DOMAIN Body.o = {IdentifierField}
        /\ Body.o[IdentifierField] = args[IdentifierField]
        /\ (pc = "done" /\ SuccessEnvelope /\ op = "update_product") =>
              /\ outcome.kind = "return"
              /\ Text(outcome) = "Successfully updated product details for '"
                                     \o args.product_identifier.s \o "'."

C26_Witness ==
    /\ pc = "done"
    /\ op = "update_product"
    /\ NothingToUpdate
    /\ SuccessEnvelope
    /\ DOMAIN Body.o = {"product_identifier"}
    /\ Text(outcome) = "Successfully updated product details for 'BC-001'."

====
